---- MODULE Spec2Model ----
(***************************************************************************)
(* GoProOverlay, convertTelemetry.py: the Orientation mapper, the block    *)
(* ingestion loop and the resampling / calibration / GPS / yaw pipeline;   *)
(* genFilterComplexSpeedChange.py: the list of speed changes and the       *)
(* atempo factors; addOverlay.py: Overlay.loadOVRL.                        *)
(*                                                                         *)
(* Conventions                                                             *)
(*   - a Python string is a sequence of one-character strings;             *)
(*   - a Python dict is a function whose DOMAIN is the set of keys (with   *)
(*     the keys in insertion order beside it where the order is read);     *)
(*     list and dict indices keep Python's 0-based values, sequences of    *)
(*     the module are 1-based, so v[k] of the source is v[k + 1] here;     *)
(*   - a JSON value is a record [kind, val]: kind "num" carries the number *)
(*     in val, kind "str" is a text that float() rejects, kind "none" is   *)
(*     an absent key;                                                      *)
(*   - times of the input document are integers, in ticks (TicksPerSecond  *)
(*     to the second); times of the command line are in seconds.           *)
(***************************************************************************)
EXTENDS Integers, Sequences, FiniteSets, TLC

VARIABLES
    \* Orientation mapper (SpecOri)
    oriPc,      \* "new" | "constructed" | "mangled" | "raised"
    oriArgs,    \* arguments of Orientation.__init__
    ori,        \* the constructed instance
    vecIn,      \* argument of mangle
    vecOut,     \* result of mangle
    \* __main__ (SpecIngest, Spec)
    pc,         \* position of __main__
    dctIn,      \* the input document: [Main, docs]
    args,       \* parsed command line
    intIdx,     \* block counter of the ingestion loop
    dctOut,     \* channel key -> collected series, later resampled array
    loc,        \* the other local variables of __main__
    exitStatus, \* -1 while running, else the process exit status
    fileOut,    \* "empty" (opened, truncated) | "written"
    \* genFilterComplexSpeedChange.py, __main__ (SpecSpeed)
    spPc,       \* position of __main__
    spArgs,     \* parsed command line and the probed fltDuration
    lstChange,  \* the list of (fltStart, fltEnd, fltSpeed)
    spLoc,      \* loop index, fltASpeed and lstATempo of the filter loop
    lstFilter,  \* the filter strings, as their trim bounds and atempo factors
    \* addOverlay.py, Overlay.loadOVRL (SpecOvrl)
    ovPc,          \* position of loadOVRL
    fOvrl,         \* the lines of the file
    intIdxLine,    \* number of lines read
    lstCommands,   \* lstCommands
    cmdOverlay,    \* the current command, or None
    boolIsTainted, \* self._boolIsTainted
    lstSteps       \* self._lstSteps

varsOri == <<oriPc, oriArgs, ori, vecIn, vecOut>>

varsMain == <<pc, dctIn, args, intIdx, dctOut, loc, exitStatus, fileOut>>

varsSpeed == <<spPc, spArgs, lstChange, spLoc, lstFilter>>

varsOvrl == <<ovPc, fOvrl, intIdxLine, lstCommands, cmdOverlay, boolIsTainted,
              lstSteps>>

vars == <<oriPc, oriArgs, ori, vecIn, vecOut,
          pc, dctIn, args, intIdx, dctOut, loc, exitStatus, fileOut,
          spPc, spArgs, lstChange, spLoc, lstFilter,
          ovPc, fOvrl, intIdxLine, lstCommands, cmdOverlay, boolIsTainted,
          lstSteps>>

----------------------------------------------------------------------------
(* Generic helpers *)

Range(s) == {s[i] : i \in DOMAIN s}

Max(S) == CHOOSE m \in S : \A x \in S : x <= m

SeqsUpTo(S, n) == UNION {[1..k -> S] : k \in 0..n}

----------------------------------------------------------------------------
(* Floating-point numbers of the arrays: exact fractions n/d in lowest terms
   with d > 0, and NaN (d = 0) *)

Abs(x) == IF x < 0 THEN 0 - x ELSE x

RECURSIVE GCD(_, _)
GCD(a, b) == IF b = 0 THEN a ELSE GCD(b, a % b)

NaN == [n |-> 0, d |-> 0]

\* the fraction n/d, d # 0
Frac(n, d) ==
    LET g == GCD(Abs(n), Abs(d))
    IN  IF d > 0 THEN [n |-> n \div g, d |-> d \div g]
        ELSE [n |-> (0 - n) \div g, d |-> (0 - d) \div g]

Q(n) == [n |-> n, d |-> 1]

IsNaN(a) == a.d = 0

QAdd(a, b) == IF IsNaN(a) \/ IsNaN(b) THEN NaN ELSE Frac(a.n * b.d + b.n * a.d, a.d * b.d)

QSub(a, b) == IF IsNaN(a) \/ IsNaN(b) THEN NaN ELSE Frac(a.n * b.d - b.n * a.d, a.d * b.d)

QMul(a, b) == IF IsNaN(a) \/ IsNaN(b) THEN NaN ELSE Frac(a.n * b.n, a.d * b.d)

\* numpy's a / b: 0/0 is NaN (the model never divides a non-zero number by 0)
QDiv(a, b) ==
    IF IsNaN(a) \/ IsNaN(b) \/ b.n = 0 THEN NaN ELSE Frac(a.n * b.d, a.d * b.n)

\* comparisons with NaN are false
QLess(a, b) == ~IsNaN(a) /\ ~IsNaN(b) /\ a.n * b.d < b.n * a.d

\* numpy.mod(a, m) for an integer m > 0: the result lies in [0, m)
QMod(a, m) == IF IsNaN(a) THEN NaN ELSE Frac(a.n % (m * a.d), a.d)

----------------------------------------------------------------------------
(* Characters and str.lower / str.islower *)

LowerChars == {"x", "y", "z", "r", "a"}

Lower(c) ==
    CASE c = "X" -> "x"
      [] c = "Y" -> "y"
      [] c = "Z" -> "z"
      [] c = "R" -> "r"
      [] c = "A" -> "a"
      [] OTHER   -> c

IsLower(c) == c \in LowerChars

LowerStr(s) == [i \in DOMAIN s |-> Lower(s[i])]

----------------------------------------------------------------------------
(* Program constants *)

DEFAULT_ARG_GRAV      == <<"X", "Z", "Y">>
DEFAULT_ARG_QUAT      == <<"R", "X", "Z", "Y">>
DEFAULT_ARG_EULER_SEQ == <<"Z", "X", "Y">>
DEFAULT_COORD_ACCL    == <<"X", "Y", "Z">>
DEFAULT_ARG_ORIOUT    == <<"y", "x", "z">>

AxesXYZ  == <<"x", "y", "z">>
AxesXYZR == <<"x", "y", "z", "r">>

----------------------------------------------------------------------------
(* class Orientation *)

\* {key: idx for idx, key in enumerate(keys)}[key]: the last occurrence wins
LastIdx(keys, key) == Max({i \in DOMAIN keys : keys[i] = key}) - 1

\* self._dctAxes
DctAxes(strAxes) ==
    [c \in Range(LowerStr(strAxes)) |-> LastIdx(LowerStr(strAxes), c)]

\* all([i in strAxes.lower() for i in strIn.lower()])
AllInAxes(strIn, strAxes) ==
    \A i \in DOMAIN strIn : Lower(strIn[i]) \in Range(LowerStr(strAxes))

\* self._strDefault after lines 147-149
StrDefault(strIn, strAxes, strDefault) ==
    IF Len(strDefault) # Len(strAxes) \/ ~AllInAxes(strIn, strAxes)
    THEN strAxes
    ELSE strDefault

\* self._strOrientation after lines 151-156
StrOrientation(strIn, strAxes, strDefault) ==
    IF Len(strIn) = Len(strAxes) /\ AllInAxes(strIn, strAxes)
    THEN strIn
    ELSE StrDefault(strIn, strAxes, strDefault)

\* self._dctAxes[strChar.lower()] for every character of the orientation
AxisKeys(strOrientation, strAxes) ==
    [i \in DOMAIN strOrientation |-> DctAxes(strAxes)[Lower(strOrientation[i])]]

\* mutant of DctMap: every axis named stays where it is
DctMapInPlace(strOrientation, strAxes) ==
    LET keys == AxisKeys(strOrientation, strAxes)
    IN  [k \in Range(keys) |-> k]

\* self._dctMap of an orientation string (line 158)
DctMap(strOrientation, strAxes) ==
    LET keys == AxisKeys(strOrientation, strAxes)
    IN  [k \in Range(keys) |-> LastIdx(keys, k)]

\* self._dctSign of an orientation string (line 160)
DctSign(strOrientation, strAxes) ==
    LET keys == AxisKeys(strOrientation, strAxes)
    IN  [k \in Range(keys) |->
            IF IsLower(strOrientation[LastIdx(keys, k) + 1]) THEN -1 ELSE 1]

\* Orientation.__init__: the instance, or raised (KeyError at line 158/160)
OrientationInit(strIn, strAxes, strDefault, boolParseSign) ==
    LET so == StrOrientation(strIn, strAxes, strDefault)
        keyError == \E i \in DOMAIN so : Lower(so[i]) \notin DOMAIN DctAxes(strAxes)
    IN  IF keyError
        THEN [raised |-> TRUE, strOrientation |-> so, dctMap |-> <<>>,
              dctSign |-> <<>>, signNone |-> ~boolParseSign]
        ELSE [raised |-> FALSE, strOrientation |-> so,
              dctMap |-> DctMap(so, strAxes),
              dctSign |-> IF boolParseSign THEN DctSign(so, strAxes) ELSE <<>>,
              signNone |-> ~boolParseSign]

\* Orientation.mangle: KeyError when i is no key of _dctMap, IndexError when
\* the vector is shorter than the mapped position.
MangleRaises(o, lstVector) ==
    \E i \in 0..(Cardinality(DOMAIN o.dctMap) - 1) :
        \/ i \notin DOMAIN o.dctMap
        \/ o.dctMap[i] + 1 > Len(lstVector)

\* mutant of Mangle: the components are reordered, the signs are not applied
MangleWithoutSign(o, lstVector) ==
    IF MangleRaises(o, lstVector)
    THEN [raised |-> TRUE, vec |-> <<>>]
    ELSE [raised |-> FALSE,
          vec |-> [j \in 1..Cardinality(DOMAIN o.dctMap) |->
                     lstVector[o.dctMap[j - 1] + 1]]]

Mangle(o, lstVector) ==
    IF MangleRaises(o, lstVector)
    THEN [raised |-> TRUE, vec |-> <<>>]
    ELSE [raised |-> FALSE,
          vec |-> [j \in 1..Cardinality(DOMAIN o.dctMap) |->
                     IF o.signNone
                     THEN lstVector[o.dctMap[j - 1] + 1]
                     ELSE o.dctSign[j - 1] * lstVector[o.dctMap[j - 1] + 1]]]

----------------------------------------------------------------------------
(* SpecOri: construct an Orientation from any short string, then mangle *)

MaxStrLen == 4

OriChars == {"x", "y", "z", "r", "X", "Y", "Z", "a"}

\* The five constructions of the program (lines 411-414 and 445)
OriSites ==
    { [strAxes |-> AxesXYZ,  strDefault |-> DEFAULT_ARG_GRAV,      boolParseSign |-> TRUE],
      [strAxes |-> AxesXYZR, strDefault |-> DEFAULT_ARG_QUAT,      boolParseSign |-> TRUE],
      [strAxes |-> AxesXYZ,  strDefault |-> DEFAULT_ARG_EULER_SEQ, boolParseSign |-> FALSE],
      [strAxes |-> AxesXYZ,  strDefault |-> DEFAULT_ARG_ORIOUT,    boolParseSign |-> TRUE],
      [strAxes |-> AxesXYZ,  strDefault |-> DEFAULT_COORD_ACCL,    boolParseSign |-> TRUE] }

NoOri == [raised |-> FALSE, strOrientation |-> <<>>, dctMap |-> <<>>,
          dctSign |-> <<>>, signNone |-> TRUE]

TestVectors == { <<1, 2, 3>>, <<1, 2, 3, 4>>, <<5, 7>> }

\* __main__ is not running in SpecOri, the mapper is idle in the other specs
IdleMain ==
    /\ pc = "idle"
    /\ dctIn = <<>>
    /\ args = <<>>
    /\ intIdx = 0
    /\ dctOut = <<>>
    /\ loc = <<>>
    /\ exitStatus = -1
    /\ fileOut = "empty"

IdleOri ==
    /\ oriPc = "idle"
    /\ oriArgs = <<>>
    /\ ori = NoOri
    /\ vecIn = <<>>
    /\ vecOut = <<>>

\* genFilterComplexSpeedChange.py is not running
IdleSpeed ==
    /\ spPc = "idle"
    /\ spArgs = <<>>
    /\ lstChange = <<>>
    /\ spLoc = <<>>
    /\ lstFilter = <<>>

\* no overlay file is being loaded
IdleOvrl ==
    /\ ovPc = "idle"
    /\ fOvrl = <<>>
    /\ intIdxLine = 0
    /\ lstCommands = <<>>
    /\ cmdOverlay = <<>>
    /\ boolIsTainted = FALSE
    /\ lstSteps = <<>>

InitOri ==
    /\ IdleMain
    /\ IdleSpeed
    /\ IdleOvrl
    /\ oriPc = "new"
    /\ \E s \in SeqsUpTo(OriChars, MaxStrLen), site \in OriSites :
          oriArgs = [strIn |-> s, strAxes |-> site.strAxes,
                     strDefault |-> site.strDefault,
                     boolParseSign |-> site.boolParseSign]
    /\ ori = NoOri
    /\ vecIn = <<>>
    /\ vecOut = <<>>

Construct ==
    /\ oriPc = "new"
    /\ LET o == OrientationInit(oriArgs.strIn, oriArgs.strAxes,
                                oriArgs.strDefault, oriArgs.boolParseSign)
       IN  /\ ori' = o
           /\ oriPc' = IF o.raised THEN "raised" ELSE "constructed"
    /\ UNCHANGED <<oriArgs, vecIn, vecOut>>
    /\ UNCHANGED varsMain
    /\ UNCHANGED <<varsSpeed, varsOvrl>>

DoMangle ==
    /\ oriPc = "constructed"
    /\ \E v \in TestVectors :
          LET r == Mangle(ori, v)
          IN  /\ vecIn' = v
              /\ vecOut' = r.vec
              /\ oriPc' = IF r.raised THEN "raised" ELSE "mangled"
    /\ UNCHANGED <<oriArgs, ori>>
    /\ UNCHANGED varsMain
    /\ UNCHANGED <<varsSpeed, varsOvrl>>

NextOri == Construct \/ DoMangle

SpecOri == InitOri /\ [][NextOri]_vars

----------------------------------------------------------------------------
(* JSON values of the input document *)

Num(n)   == [kind |-> "num", val |-> n]
Text     == [kind |-> "str", val |-> 0]
NoValue  == [kind |-> "none", val |-> 0]

IsNum(j) == j.kind = "num"

----------------------------------------------------------------------------
(* Channels of a block, in the order the loop body reads them *)

\* lines 446-475: (input key, dimension, orientation, output key)
VecChannels ==
    << [keyIn |-> "Accelerometer", intDim |-> 3, ori |-> "input", keyOut |-> "Acceleration"],
       [keyIn |-> "Gyroscope",     intDim |-> 3, ori |-> "input", keyOut |-> "Gyroscope"],
       [keyIn |-> "GoPro_GRAV",    intDim |-> 3, ori |-> "grav",  keyOut |-> "Gravity"],
       [keyIn |-> "GoPro_CORI",    intDim |-> 4, ori |-> "quat",  keyOut |-> "CameraAngle"],
       [keyIn |-> "GoPro_IORI",    intDim |-> 4, ori |-> "quat",  keyOut |-> "ImageAngle"] >>

\* lines 478-487: (input key, output key)
ScalarChannels ==
    << [keyIn |-> "GPSLatitude",          keyOut |-> "Latitude"],
       [keyIn |-> "GPSLongitude",         keyOut |-> "Longitude"],
       [keyIn |-> "GPSAltitude",          keyOut |-> "Altitude"],
       [keyIn |-> "GPSSpeed",             keyOut |-> "GPSSpeed2D"],
       [keyIn |-> "GPSSpeed3D",           keyOut |-> "GPSSpeed3D"],
       [keyIn |-> "GPSHPositioningError", keyOut |-> "GPSHorizontalError"],
       [keyIn |-> "GPSDateTime",          keyOut |-> "GPSTime"],
       [keyIn |-> "CameraTemperature",    keyOut |-> "Temperature"] >>

VecKeysIn    == {VecChannels[i].keyIn : i \in DOMAIN VecChannels}
ScalarKeysIn == {ScalarChannels[i].keyIn : i \in DOMAIN ScalarChannels}
VecKeysOut   == {VecChannels[i].keyOut : i \in DOMAIN VecChannels}
ScalarKeysOut == {ScalarChannels[i].keyOut : i \in DOMAIN ScalarChannels}
KeysOut      == VecKeysOut \cup ScalarKeysOut

----------------------------------------------------------------------------
(* dctOut: keys in insertion order, and their values *)

\* dctOut = {}
EmptyDict == [keys |-> <<>>, val |-> <<>>]

DictHas(d, k) == k \in DOMAIN d.val

\* d[k] = v
DictSet(d, k, v) ==
    [keys |-> IF DictHas(d, k) THEN d.keys ELSE Append(d.keys, k),
     val  |-> [x \in (DOMAIN d.val) \cup {k} |-> IF x = k THEN v ELSE d.val[x]]]

\* the list that d.setdefault(k, []) returns
ListAt(d, k) == IF DictHas(d, k) THEN d.val[k] ELSE <<>>

\* d after appends to d.setdefault(k, []) have made the list lst; setdefault
\* is only ever followed by append, so no key holds an empty list
StoreList(d, k, lst) == IF lst = <<>> THEN d ELSE DictSet(d, k, lst)

----------------------------------------------------------------------------
(* appendTypedListFromString, appendValueFromDict *)

\* list(map(float, str(strIn).split())) raises ValueError on a token that is
\* no number; a payload is the list of its tokens.
ConversionFails(tokens) == \E i \in DOMAIN tokens : ~IsNum(tokens[i])

\* lstInputRaw[intIdx:intIdx+intDim], intIdx 0-based; the last slice may be short
Slice(lst, idx, intDim) ==
    LET hi == IF idx + intDim < Len(lst) THEN idx + intDim ELSE Len(lst)
    IN  [j \in 1..(hi - idx) |-> lst[idx + j].val]

\* t = t + dt raises TypeError unless the timestamp is a number
TimeAdd(t, dt) == Num(t.val + dt)

\* The loop of lines 231-234 from index idx on: the list after it, and whether
\* mangle (IndexError, KeyError) or t + dt (TypeError) raised.
RECURSIVE AppendGroups(_, _, _, _, _, _, _)
AppendGroups(lst, raw, intDim, o, t, dt, idx) ==
    IF idx >= Len(raw)
    THEN [lst |-> lst, raised |-> FALSE]
    ELSE LET m == Mangle(o, Slice(raw, idx, intDim))
         IN  IF m.raised
             THEN [lst |-> lst, raised |-> TRUE]
             ELSE LET lst2 == Append(lst, [t |-> t, y |-> m.vec])
                  IN  IF ~IsNum(t)
                      THEN [lst |-> lst2, raised |-> TRUE]
                      ELSE AppendGroups(lst2, raw, intDim, o, TimeAdd(t, dt), dt,
                                        idx + intDim)

\* mutant of AppendTypedListFromString: dt is the duration of the block, not
\* its share of one sample
AppendTypedListUndivided(lst, tokens, intDim, o, fltTimestamp, fltDuration) ==
    IF ConversionFails(tokens) \/ Len(tokens) = 0
    THEN [lst |-> lst, raised |-> FALSE]
    ELSE AppendGroups(lst, tokens, intDim, o, fltTimestamp, fltDuration, 0)

\* appendTypedListFromString on the list dctOut[strKeyOut]. fltDuration is a
\* number here (line 441 has compared it). dt = fltDuration*intDim/len is a
\* float in the source; the payloads of the model keep the division exact
\* wherever a second timestamp is stored.
AppendTypedListFromString(lst, tokens, intDim, o, fltTimestamp, fltDuration) ==
    IF ConversionFails(tokens) \/ Len(tokens) = 0
    THEN [lst |-> lst, raised |-> FALSE]
    ELSE AppendGroups(lst, tokens, intDim, o, fltTimestamp,
                      (fltDuration * intDim) \div Len(tokens), 0)

\* appendValueFromDict on the list dctOut[strKeyOut]: KeyError, ValueError and
\* TypeError of the conversion are swallowed.
AppendValueFromDict(lst, value, fltTimestamp) ==
    IF IsNum(value)
    THEN Append(lst, [t |-> fltTimestamp, y |-> value.val])
    ELSE lst

----------------------------------------------------------------------------
(* __main__, lines 388-487: Main section and block ingestion *)

\* mutant of MainIsFatal: the check of a zero duration is missing
MainIsFatalNoZeroDuration(main) ==
    \/ ~IsNum(main.VideoFrameRate)
    \/ ~IsNum(main.Duration)
    \/ main.VideoFrameRate.val = 0

\* lines 391-402: sys.exit(1)
MainIsFatal(main) ==
    \/ ~IsNum(main.VideoFrameRate)
    \/ ~IsNum(main.Duration)
    \/ main.VideoFrameRate.val = 0
    \/ main.Duration.val = 0

\* dctIn["Doc{}".format(intIdx)]; a missing key is an entry that does not exist
NoDoc == [exists |-> FALSE]

DocAt(docs, i) == IF i \in DOMAIN docs THEN docs[i] ELSE NoDoc

\* lines 432-442: break
BlockEndsIngestion(e) ==
    \/ ~e.exists
    \/ e.SampleDuration.kind = "none"
    \/ e.SampleTime.kind = "none"
    \/ (IsNum(e.SampleDuration) /\ e.SampleDuration.val <= 0)

\* line 441: fltDuration <= 0 raises TypeError on a text
DurationCompareRaises(e) ==
    /\ e.exists
    /\ e.SampleDuration.kind = "str"
    /\ e.SampleTime.kind # "none"

OriOf(name, oriInput) ==
    CASE name = "input" -> oriInput
      [] name = "grav"  -> OrientationInit(DEFAULT_ARG_GRAV, AxesXYZ, DEFAULT_ARG_GRAV, TRUE)
      [] name = "quat"  -> OrientationInit(DEFAULT_ARG_QUAT, AxesXYZR, DEFAULT_ARG_QUAT, TRUE)

\* lines 446-475, vector channels i..5 in order; stops at the first raise
RECURSIVE IngestVectors(_, _, _, _)
IngestVectors(out, e, oriInput, i) ==
    IF i > Len(VecChannels)
    THEN [out |-> out, raised |-> FALSE]
    ELSE LET ch == VecChannels[i]
             r  == AppendTypedListFromString(ListAt(out, ch.keyOut),
                        e.vec[ch.keyIn], ch.intDim, OriOf(ch.ori, oriInput),
                        e.SampleTime, e.SampleDuration.val)
             out2 == StoreList(out, ch.keyOut, r.lst)
         IN  IF r.raised
             THEN [out |-> out2, raised |-> TRUE]
             ELSE IngestVectors(out2, e, oriInput, i + 1)

\* lines 478-487, scalar channels i..8 in order
RECURSIVE IngestScalars(_, _, _)
IngestScalars(out, e, i) ==
    IF i > Len(ScalarChannels)
    THEN out
    ELSE LET ch == ScalarChannels[i]
         IN  IngestScalars(
                StoreList(out, ch.keyOut,
                    AppendValueFromDict(ListAt(out, ch.keyOut), e.sc[ch.keyIn],
                                        e.SampleTime)),
                e, i + 1)

\* The body of the loop for one block that does not end ingestion
IngestEntry(out, e) ==
    LET oriInput == OrientationInit(e.InputOrientation, AxesXYZ, DEFAULT_COORD_ACCL, TRUE)
        v == IngestVectors(out, e, oriInput, 1)
    IN  IF oriInput.raised
        THEN [out |-> out, raised |-> TRUE]
        ELSE IF v.raised
             THEN v
             ELSE [out |-> IngestScalars(v.out, e, 1), raised |-> FALSE]

----------------------------------------------------------------------------
(* Command line, lines 296-385 and 404-414 *)

DEFAULT_ARG_HDOP == 10

DEFAULT_ARG_MINSPEED == 1

\* --calGrav after strCalGrav.partition("-"): the text before the separator
\* and the text after it as JSON-like values (a number of seconds, or a text
\* float() rejects, the empty text included), and whether "-" occurs
CalGrav(t0, t1) == [strT0 |-> t0, strSep |-> TRUE, strT1 |-> t1]

\* "-1"
DEFAULT_ARG_CALGRAV == CalGrav(Text, Num(1))

\* slice(start, stop); stop = None is open
Slc(start, stop) == [start |-> start, stop |-> stop, open |-> FALSE]

SlcFrom(start) == [start |-> start, stop |-> 0, open |-> TRUE]

\* processCalGravArgs; int(float(s)*fltFramerate) is exact on whole seconds
ProcessCalGravArgs(strCalGrav, fltFramerate) ==
    IF ~strCalGrav.strSep
    THEN Slc(0, 0)
    ELSE LET intIdxT0 == IF IsNum(strCalGrav.strT0)
                         THEN strCalGrav.strT0.val * fltFramerate
                         ELSE 0
         IN  IF IsNum(strCalGrav.strT1)
             THEN Slc(intIdxT0, strCalGrav.strT1.val * fltFramerate + 1)
             ELSE SlcFrom(intIdxT0)

\* the 0-based indices arr[slc] selects from an array of n rows
SliceFrames(slc, n) ==
    {i \in 0..(n - 1) : slc.start <= i /\ (slc.open \/ i < slc.stop)}

\* parser.parse_args() without options
DefaultArgs ==
    [calGrav   |-> DEFAULT_ARG_CALGRAV,
     hdop      |-> DEFAULT_ARG_HDOP,
     minspeed  |-> DEFAULT_ARG_MINSPEED,
     noTCmatch |-> FALSE,
     noRPYZero |-> FALSE,
     offset    |-> <<>>]

----------------------------------------------------------------------------
(* Timeline and resampling, lines 492-567 *)

\* ticks of the time unit of Main.Duration, SampleTime and SampleDuration
TicksPerSecond == 12

\* Python round() of num/den (den > 0, num >= 0): ties go to the even integer
Round(num, den) ==
    LET q == num \div den
        r == num % den
    IN  IF 2 * r < den THEN q
        ELSE IF 2 * r > den THEN q + 1
        ELSE IF q % 2 = 0 THEN q ELSE q + 1

\* mutant of Linspace: numpy.linspace(0, D, n, endpoint=False)
LinspaceWithoutEndpoint(D, n) == [i \in 1..n |-> ((i - 1) * D) \div n]

\* numpy.linspace(0, D, n); the durations and frame counts of the model make
\* every step a whole number of ticks
Linspace(D, n) ==
    [i \in 1..n |-> IF n = 1 THEN 0 ELSE ((i - 1) * D) \div (n - 1)]

\* mutant of FrozenKeys: the keys stay in the order of their insertion
FrozenKeysAsInserted(keys) == keys

\* lines 496-502: list(dctOut.keys()) with "Gravity" moved to the front
FrozenKeys(keys) ==
    IF \E i \in DOMAIN keys : keys[i] = "Gravity"
    THEN <<"Gravity">> \o SelectSeq(keys, LAMBDA k : k # "Gravity")
    ELSE keys

\* scipy.interpolate.CubicSpline(lstT, lstY) raises ValueError on fewer than
\* two points, on x that is not strictly increasing, on a value that is no
\* number and on rows of different lengths
SplineRaises(strKey, series) ==
    \/ Len(series) < 2
    \/ \E i \in DOMAIN series : ~IsNum(series[i].t)
    \/ \E i \in 1..(Len(series) - 1) : series[i + 1].t.val <= series[i].t.val
    \/ /\ strKey \in VecKeysOut
       /\ \E i \in DOMAIN series : Len(series[i].y) # Len(series[1].y)

\* cs(x) for knots lstT and values lstY: the value of the knot where x is a
\* knot; the straight line through the neighbouring knots elsewhere, which
\* is the spline itself when there are two knots (the series of the model
\* with more knots have a knot at every frame time)
SplineAt(lstT, lstY, x) ==
    IF \E j \in DOMAIN lstT : lstT[j] = x
    THEN lstY[CHOOSE j \in DOMAIN lstT : lstT[j] = x]
    ELSE LET j == IF x < lstT[1] THEN 1
                  ELSE Max({i \in 1..(Len(lstT) - 1) : lstT[i] <= x})
         IN  lstY[j] + ((lstY[j + 1] - lstY[j]) * (x - lstT[j]))
                            \div (lstT[j + 1] - lstT[j])

\* scipy.spatial.transform.Rotation: the identity, or the rotation computed
\* from the median of the gravity rows of a set of frames
Identity == [kind |-> "identity", frames |-> {}]

Calibrated(frames) == [kind |-> "calibrated", frames |-> frames]

\* numpy.pi in the unit of the angles of the model (an eighth of a turn)
Pi == 4

\* lstY.as_euler(...) after mangleSeries and numpy.unwrap is not computed
\* here: the attitude of a recording is one of these series of (roll, pitch,
\* yaw), frame i holding base + (i - 1) * step
EulerProfiles ==
    { [base |-> <<1, 0 - 6, 9>>,     step |-> <<1, 2, 0 - 3>>],
      [base |-> <<0 - 5, 3, 0 - 2>>, step |-> <<0, 4, 1>>] }

EulerAt(euler, i) == [c \in 1..3 |-> Q(euler.base[c] + (i - 1) * euler.step[c])]

\* a row of Euler angles: the rotation applied to the measured attitude, the
\* angles (roll, pitch, yaw), how yaw and roll/pitch have been adjusted,
\* whether the row is wrapped
AngleRow(rot, angles) ==
    [rot |-> rot, angles |-> angles, yaw |-> "euler", rollPitch |-> "euler",
     wrapped |-> FALSE]

\* cs(arrTNew) of lines 509-519
ResampledArray(strKey, series, arrTNew, rotCalGrav, euler) ==
    LET lstT == [j \in DOMAIN series |-> series[j].t.val]
    IN  IF strKey = "CameraAngle"
        THEN [i \in DOMAIN arrTNew |-> AngleRow(rotCalGrav, EulerAt(euler, i))]
        ELSE IF strKey = "ImageAngle"
        THEN [i \in DOMAIN arrTNew |-> AngleRow(Identity, EulerAt(euler, i))]
        ELSE IF strKey \in VecKeysOut
        THEN [i \in DOMAIN arrTNew |->
                [c \in DOMAIN series[1].y |->
                    Q(SplineAt(lstT, [j \in DOMAIN series |-> series[j].y[c]], arrTNew[i]))]]
        ELSE [i \in DOMAIN arrTNew |->
                Q(SplineAt(lstT, [j \in DOMAIN series |-> series[j].y], arrTNew[i]))]

\* mutant of DerivativeArray: differences of neighbouring frames, one value
\* fewer than there are frames
DerivativeArrayOfDifferences(strKey, arrTNew) ==
    [i \in 1..(Len(arrTNew) - 1) |-> [ddt |-> strKey]]

\* cs.derivative()(arrTNew): one derivative value per frame
DerivativeArray(strKey, arrTNew) == [i \in DOMAIN arrTNew |-> [ddt |-> strKey]]

\* lines 520-533: the derived channel a key adds to dctOut
DerivedKey(strKey) ==
    CASE strKey = "Altitude"   -> "Vario"
      [] strKey = "GPSSpeed2D" -> "GPSAcceleration2D"
      [] strKey = "GPSSpeed3D" -> "GPSAcceleration3D"
      [] OTHER                 -> ""

\* lines 552-565: the calibration rotation after "Gravity" is resampled
CalibrationOf(slcCalGrav, n, rotCalGrav) ==
    IF SliceFrames(slcCalGrav, n) # {}
    THEN Calibrated(SliceFrames(slcCalGrav, n))
    ELSE rotCalGrav

\* the locals of __main__ before their first assignment
NoLocals ==
    [fltFramerate |-> 0, fltDurationOverall |-> 0, slcCalGrav |-> Slc(0, 0),
     rotCalGrav |-> Identity, arrTNew |-> <<>>, lstStrKeys |-> <<>>,
     keyIdx |-> 0, derivs |-> {}, arrMaskNotPrecise |-> <<>>]

\* one iteration of the loop of lines 504-565 on the key at l.keyIdx
ResampleStep(d, l, euler) ==
    LET strKey == l.lstStrKeys[l.keyIdx]
        series == d.val[strKey]
    IN  IF SplineRaises(strKey, series)
        THEN [out |-> d, loc |-> l, raised |-> TRUE]
        ELSE LET arr == ResampledArray(strKey, series, l.arrTNew, l.rotCalGrav, euler)
                 d1  == DictSet(d, strKey, arr)
                 d2  == IF DerivedKey(strKey) = ""
                        THEN d1
                        ELSE DictSet(d1, DerivedKey(strKey),
                                     DerivativeArray(strKey, l.arrTNew))
             IN  [out |-> d2,
                  loc |-> [l EXCEPT
                      !.keyIdx = @ + 1,
                      !.derivs = IF strKey \in {"Latitude", "Longitude", "Altitude"}
                                 THEN @ \cup {strKey} ELSE @,
                      !.rotCalGrav = IF strKey = "Gravity"
                                     THEN CalibrationOf(l.slcCalGrav, Len(l.arrTNew), @)
                                     ELSE @],
                  raised |-> FALSE]

----------------------------------------------------------------------------
(* GPS kinematics, lines 615-653 *)

\* KeyError on a key dctOut lacks, NameError on a derivative never assigned,
\* ValueError of CubicSpline(arrTNew, ...) on fewer than two frames
GPSRaises(d, l) ==
    \/ \E k \in {"GPSHorizontalError", "GPSSpeed2D", "Latitude"} : ~DictHas(d, k)
    \/ \E k \in {"Latitude", "Longitude", "Altitude"} : k \notin l.derivs
    \/ Len(l.arrTNew) < 2

\* mutant of MaskNotPrecise: the horizontal error takes no part in the mask
MaskNotPreciseOfSpeed(d, a) ==
    [i \in DOMAIN d.val["GPSHorizontalError"] |->
        QLess(d.val["GPSSpeed2D"][i], Q(a.minspeed))]

\* lines 615-618
MaskNotPrecise(d, a) ==
    [i \in DOMAIN d.val["GPSHorizontalError"] |->
        \/ QLess(Q(a.hdop), d.val["GPSHorizontalError"][i])
        \/ QLess(d.val["GPSSpeed2D"][i], Q(a.minspeed))]

\* An element of a derived array: whether it is masked (written as null),
\* and the frames whose GPS data its value is computed from.
\* line 639: arctan2 is elementwise, numpy.unwrap works on the data of the
\* array (the mask is dropped) and corrects each element by the jumps before
\* it; the mask is then put back. The recordings of the model stand still
\* (latitude and longitude are constant), so the course is arctan2(0, 0) = 0.
TrueCourseArray(mask) ==
    [i \in DOMAIN mask |->
        [missing |-> mask[i], uses |-> 1..i, val |-> Q(0), wrapped |-> FALSE]]

\* line 640: CubicSpline takes the data of the masked array (numpy.asarray
\* drops the mask) and returns a plain array
TurnRateArray(mask) ==
    [i \in DOMAIN mask |-> [missing |-> FALSE, uses |-> DOMAIN mask]]

\* mutant of ElementwiseMasked: the result carries no mask
ElementwiseUnmasked(mask) ==
    [i \in DOMAIN mask |-> [missing |-> FALSE, uses |-> {i}]]

\* lines 634, 641 and 653: elementwise on masked operands
ElementwiseMasked(mask) ==
    [i \in DOMAIN mask |-> [missing |-> mask[i], uses |-> {i}]]

GPSKinematics(d, l, a) ==
    LET mask == MaskNotPrecise(d, a)
        d1 == DictSet(d,  "TrueCourse",   TrueCourseArray(mask))
        d2 == DictSet(d1, "TurnRate",     TurnRateArray(mask))
        d3 == DictSet(d2, "DistanceStep", ElementwiseMasked(mask))
        d4 == DictSet(d3, "GPSPitch",     ElementwiseMasked(mask))
    IN  [out |-> d4, loc |-> [l EXCEPT !.arrMaskNotPrecise = mask]]

----------------------------------------------------------------------------
(* Offsets: processOffsetArgs, lines 90-129, and lines 570-606 *)

\* json.loads(strValue): a number, a list of numbers, true, NaN, a string, or
\* a text json.loads rejects with ValueError
JNumber(x) == [kind |-> "num",  items |-> <<Q(x)>>]
JList(xs)  == [kind |-> "list", items |-> [i \in DOMAIN xs |-> Q(xs[i])]]
JTrue      == [kind |-> "true", items |-> <<Q(1)>>]
JNaN       == [kind |-> "nan",  items |-> <<NaN>>]
JString    == [kind |-> "str",  items |-> <<>>]
JInvalid   == [kind |-> "bad",  items |-> <<>>]

\* the keys of MAP_STATISTICS_METHOD; "" stands for None
MAP_STATISTICS_METHOD ==
    {"median", "mean", "meanGeometric", "meanHarmonic", "meanPower", ""}

\* one --offset string: whether RE_OFFSET.fullmatch matches it, and the groups
\* (strT0 and strT1 as a number of ticks, or NoValue for an empty group)
OffsetArg(strKey, strValue, strT0, strT1, strMethod) ==
    [match |-> TRUE, strKey |-> strKey, strValue |-> strValue,
     strT0 |-> strT0, strT1 |-> strT1, strMethod |-> strMethod]

\* lines 106-115: int() truncates, the times are not negative
OffsetSlice(strT0, strT1, fltFramerate) ==
    LET intIdxT0 == IF IsNum(strT0)
                    THEN (strT0.val * fltFramerate) \div TicksPerSecond
                    ELSE 0
        intIdxT1 == (strT1.val * fltFramerate) \div TicksPerSecond + 1
    IN  IF ~IsNum(strT1) THEN SlcFrom(intIdxT0)
        ELSE IF intIdxT0 = intIdxT1 THEN Slc(intIdxT0, intIdxT1 + 1)
        ELSE Slc(intIdxT0, intIdxT1)

\* lines 103-128: whether the string adds a triple to dctOffsets
OffsetParses(o) ==
    /\ o.match
    /\ o.strValue.kind # "bad"
    /\ o.strMethod \in MAP_STATISTICS_METHOD

\* processOffsetArgs: dctOffsets, each key with its list of triples
RECURSIVE ProcessOffsetArgs(_, _)
ProcessOffsetArgs(lstStrOffsets, fltFramerate) ==
    IF lstStrOffsets = <<>> THEN EmptyDict
    ELSE LET n == Len(lstStrOffsets)
             o == lstStrOffsets[n]
             dctOffsets == ProcessOffsetArgs(SubSeq(lstStrOffsets, 1, n - 1), fltFramerate)
         IN  IF ~OffsetParses(o) THEN dctOffsets
             ELSE StoreList(dctOffsets, o.strKey,
                      Append(ListAt(dctOffsets, o.strKey),
                             [varValue  |-> o.strValue,
                              slcIdx    |-> OffsetSlice(o.strT0, o.strT1, fltFramerate),
                              funMethod |-> o.strMethod]))

\* a numpy value: a scalar (one item) or a one-dimensional array
Scalar(x) == [scalar |-> TRUE, items |-> <<x>>]

Vector(xs) == [scalar |-> FALSE, items |-> xs]

\* numpy broadcasting of two such values
Broadcasts(a, b) ==
    \/ a.scalar
    \/ b.scalar
    \/ Len(a.items) = Len(b.items)
    \/ Len(a.items) = 1
    \/ Len(b.items) = 1

ItemAt(a, i) == IF Len(a.items) = 1 THEN a.items[1] ELSE a.items[i]

BAdd(a, b) ==
    [scalar |-> a.scalar /\ b.scalar,
     items  |-> [i \in 1..Max({Len(a.items), Len(b.items)}) |->
                    QAdd(ItemAt(a, i), ItemAt(b, i))]]

BSub(a, b) ==
    [scalar |-> a.scalar /\ b.scalar,
     items  |-> [i \in 1..Max({Len(a.items), Len(b.items)}) |->
                    QSub(ItemAt(a, i), ItemAt(b, i))]]

Scaled(k, a) == [a EXCEPT !.items = [i \in DOMAIN a.items |-> QMul(k, a.items[i])]]

RECURSIVE QSum(_)
QSum(xs) == IF xs = <<>> THEN Q(0) ELSE QAdd(Head(xs), QSum(Tail(xs)))

\* numpy.mean
Mean(xs) == QDiv(QSum(xs), Q(Len(xs)))

KthSmallest(xs, k) ==
    xs[CHOOSE i \in DOMAIN xs :
          Cardinality({j \in DOMAIN xs :
              QLess(xs[j], xs[i]) \/ (xs[j] = xs[i] /\ j < i)}) = k - 1]

\* numpy.median
Median(xs) ==
    LET n == Len(xs)
    IN  IF n % 2 = 1 THEN KthSmallest(xs, (n + 1) \div 2)
        ELSE QDiv(QAdd(KthSmallest(xs, n \div 2), KthSmallest(xs, n \div 2 + 1)), Q(2))

\* the numbers of one row of dctOut[strKey]
RowItems(strKey, row) ==
    IF strKey \in {"CameraAngle", "ImageAngle"} THEN row.angles
    ELSE IF strKey \in VecKeysOut THEN row
    ELSE <<row>>

\* the row with its numbers replaced
RowWith(strKey, row, items) ==
    IF strKey \in {"CameraAngle", "ImageAngle"} THEN [row EXCEPT !.angles = items]
    ELSE IF strKey \in VecKeysOut THEN items
    ELSE items[1]

\* scipy.stats.pmean(a, p, ...) called as funMethod(arrVal, axis=0) lacks its
\* required argument p: TypeError
MethodRaises(funMethod) == funMethod = "meanPower"

\* funMethod(arrVal, axis=0) for numpy.median and numpy.mean, arrVal being the
\* rows lo+1..hi of arr (scipy.stats.gmean and hmean are not computed)
CentralValue(strKey, arr, lo, hi, funMethod) ==
    LET intDim == Len(RowItems(strKey, arr[1]))
        column(c) == [j \in 1..(hi - lo) |-> RowItems(strKey, arr[lo + j])[c]]
    IN  [scalar |-> strKey \notin VecKeysOut,
         items  |-> [c \in 1..intDim |->
                       IF funMethod = "mean" THEN Mean(column(c))
                       ELSE Median(column(c))]]

\* line 574-575
NoOffset == [isNone |-> TRUE, isNumpy |-> FALSE, varOffset |-> Scalar(Q(0)), intLenSum |-> 0]

\* lines 578-597 for one triple t: numpy.array(varValue) of a string is no
\* number (TypeError in the subtraction), of true it is 1; an exception
\* inside the try leaves varOffset and intLenSum as they are
OffsetStep(acc, t, strKey, arr) ==
    LET varValue == IF t.varValue.kind = "list" THEN Vector(t.varValue.items)
                    ELSE Scalar(ItemAt(t.varValue, 1))
        init == IF ~acc.isNone THEN acc
                ELSE IF t.varValue.kind = "list"
                THEN [isNone |-> FALSE, isNumpy |-> TRUE,
                      varOffset |-> Vector([i \in DOMAIN t.varValue.items |-> Q(0)]),
                      intLenSum |-> 0]
                ELSE [isNone |-> FALSE, isNumpy |-> FALSE,
                      varOffset |-> Scalar(Q(0)), intLenSum |-> 0]
        frames == SliceFrames(t.slcIdx, Len(arr))
        intLen == Cardinality(frames)
    IN  IF intLen = 0 \/ t.varValue.kind = "str" \/ MethodRaises(t.funMethod)
        THEN init
        ELSE LET lo == CHOOSE i \in frames : \A j \in frames : i <= j
                 central == CentralValue(strKey, arr, lo, lo + intLen, t.funMethod)
             IN  IF ~Broadcasts(varValue, central) THEN init
                 ELSE LET term == Scaled(Q(intLen), BSub(varValue, central))
                      IN  IF ~Broadcasts(init.varOffset, term) THEN init
                          ELSE [isNone |-> FALSE, isNumpy |-> TRUE,
                                varOffset |-> BAdd(init.varOffset, term),
                                intLenSum |-> init.intLenSum + intLen]

\* the loop of line 576 over the first k triples
RECURSIVE OffsetLoop(_, _, _, _)
OffsetLoop(lstOffset, k, strKey, arr) ==
    IF k = 0 THEN NoOffset
    ELSE OffsetStep(OffsetLoop(lstOffset, k - 1, strKey, arr), lstOffset[k], strKey, arr)

\* lines 599-606 for one key. A Python float divided by 0 raises
\* ZeroDivisionError and the channel is left alone; a numpy array divided by
\* 0 is an array of NaN and is added. varOffset + dctOut[strKey] raises
\* ValueError, outside every try, when the shapes do not broadcast.
OffsetKey(strKey, arr, lstOffset) ==
    LET acc == OffsetLoop(lstOffset, Len(lstOffset), strKey, arr)
        varOffset == [acc.varOffset EXCEPT
                         !.items = [i \in DOMAIN @ |-> QDiv(@[i], Q(acc.intLenSum))]]
        isVec == strKey \in VecKeysOut
    IN  IF ~acc.isNumpy /\ acc.intLenSum = 0
        THEN [raised |-> FALSE, arr |-> arr]
        ELSE IF isVec
        THEN IF ~Broadcasts(varOffset, Vector(RowItems(strKey, arr[1])))
             THEN [raised |-> TRUE, arr |-> arr]
             ELSE [raised |-> FALSE,
                   arr |-> [i \in DOMAIN arr |->
                              RowWith(strKey, arr[i],
                                  BAdd(varOffset, Vector(RowItems(strKey, arr[i]))).items)]]
        ELSE IF ~Broadcasts(varOffset, Vector(arr))
        THEN [raised |-> TRUE, arr |-> arr]
        ELSE [raised |-> FALSE, arr |-> BAdd(varOffset, Vector(arr)).items]

\* the loop of line 570 over the first k keys of dctOffsets
RECURSIVE OffsetsApplied(_, _, _)
OffsetsApplied(d, dctOffsets, k) ==
    IF k = 0 THEN [out |-> d, raised |-> FALSE]
    ELSE LET before == OffsetsApplied(d, dctOffsets, k - 1)
             strKey == dctOffsets.keys[k]
         IN  IF before.raised \/ ~DictHas(before.out, strKey) THEN before
             ELSE LET r == OffsetKey(strKey, before.out.val[strKey],
                                     dctOffsets.val[strKey])
                  IN  [out |-> DictSet(before.out, strKey, r.arr), raised |-> r.raised]

----------------------------------------------------------------------------
(* Yaw matching and zeroing, lines 657-685; wrapping, lines 689-690 *)

\* dctOut["TrueCourse"].count()
CountUnmasked(arr) == Cardinality({i \in DOMAIN arr : ~arr[i].missing})

\* What lines 661-670 make of the yaw column. With one unmasked sample the
\* fit has no slope: depending on the scipy release linregress raises (the
\* except clause leaves yaw as it is) or returns NaN for slope and intercept.
YawOutcomes(count) ==
    IF count = 0 THEN {"zeroed"}
    ELSE IF count = 1 THEN {"euler", "nan"}
    ELSE {"regressed"}

\* the sum of the xs[i] with i <= k and i in idx
RECURSIVE QSumOver(_, _, _)
QSumOver(xs, idx, k) ==
    IF k = 0 THEN Q(0)
    ELSE IF k \in idx THEN QAdd(xs[k], QSumOver(xs, idx, k - 1))
    ELSE QSumOver(xs, idx, k - 1)

\* scipy.stats.mstats.linregress(x, y) where idx are the unmasked positions:
\* the least-squares line; with one position slope and intercept are 0/0
LinRegress(xs, ys, idx) ==
    LET n   == Q(Cardinality(idx))
        sx  == QSumOver(xs, idx, Len(xs))
        sy  == QSumOver(ys, idx, Len(xs))
        sxy == QSumOver([i \in DOMAIN xs |-> QMul(xs[i], ys[i])], idx, Len(xs))
        sxx == QSumOver([i \in DOMAIN xs |-> QMul(xs[i], xs[i])], idx, Len(xs))
        slope == QDiv(QSub(QMul(n, sxy), QMul(sx, sy)),
                      QSub(QMul(n, sxx), QMul(sx, sx)))
    IN  [slope |-> slope, intercept |-> QDiv(QSub(sy, QMul(slope, sx)), n)]

\* lines 658-685 once CameraAngle has been read: yaw says what lines 660-670
\* did (YawOutcomes); arrZero is subtracted from every row
AdjustedAngles(arr, yaw, noRPYZero, arrTNew, arrTC) ==
    LET xs  == [i \in DOMAIN arrTNew |-> Q(arrTNew[i])]
        ys  == [i \in DOMAIN arr |-> QSub(arrTC[i].val, arr[i].angles[3])]
        fit == LinRegress(xs, ys, {i \in DOMAIN arrTC : ~arrTC[i].missing})
        yawColumn == [i \in DOMAIN arr |->
                        IF yaw \in {"regressed", "nan"}
                        THEN QAdd(arr[i].angles[3],
                                  QAdd(fit.intercept, QMul(fit.slope, xs[i])))
                        ELSE arr[i].angles[3]]
        arrZero == << IF noRPYZero THEN Q(0) ELSE arr[1].angles[1],
                      IF noRPYZero THEN Q(0) ELSE arr[1].angles[2],
                      IF yaw = "zeroed" THEN yawColumn[1] ELSE Q(0) >>
    IN  [i \in DOMAIN arr |->
            [arr[i] EXCEPT
                !.yaw = yaw,
                !.rollPitch = IF noRPYZero THEN @ ELSE "zeroed",
                !.angles = << QSub(@[1], arrZero[1]), QSub(@[2], arrZero[2]),
                              QSub(yawColumn[i], arrZero[3]) >>]]

\* line 689: roll and pitch to [-pi, pi), yaw to [0, 2 pi)
Wrapped(arr) ==
    [i \in DOMAIN arr |->
        [arr[i] EXCEPT
            !.wrapped = TRUE,
            !.angles = << QSub(QMod(QAdd(@[1], Q(Pi)), 2 * Pi), Q(Pi)),
                          QSub(QMod(QAdd(@[2], Q(Pi)), 2 * Pi), Q(Pi)),
                          QMod(@[3], 2 * Pi) >>]]

\* line 690: the mask stays
WrappedCourse(arr) ==
    [i \in DOMAIN arr |->
        [arr[i] EXCEPT !.wrapped = TRUE, !.val = QMod(@, 2 * Pi)]]

----------------------------------------------------------------------------
(* Input documents of SpecIngest *)

MaxDocs == 2

\* SampleDuration of a well-formed block: it divides evenly among the one,
\* two or three samples a payload of the model holds
BlockDuration == TicksPerSecond

\* payloads of a vector channel of dimension dim
PayOne(dim)    == [i \in 1..dim |-> Num(i)]
PayTwo(dim)    == [i \in 1..(2 * dim) |-> Num(i)]
PayThree(dim)  == [i \in 1..(3 * dim) |-> Num(i)]
PayEmpty       == <<>>
PayArity(dim)  == [i \in 1..(dim + 1) |-> Num(i)]
PayBadTok(dim) == [i \in 1..(2 * dim) |-> IF i = 2 * dim THEN Text ELSE Num(i)]

IntDimOf(keyIn) ==
    VecChannels[CHOOSE i \in DOMAIN VecChannels : VecChannels[i].keyIn = keyIn].intDim

\* a well-formed block starting at time t
GoodBlock(t) ==
    [exists |-> TRUE,
     SampleDuration |-> Num(BlockDuration),
     SampleTime |-> Num(t),
     InputOrientation |-> <<"Z", "X", "Y">>,
     vec |-> [k \in VecKeysIn |-> PayOne(IntDimOf(k))],
     sc  |-> [k \in ScalarKeysIn |-> Num(7)]]

\* the well-formed block with one field changed
HeaderVariants ==
    {[GoodBlock(0) EXCEPT !.SampleTime = j] : j \in {NoValue, Text}}
    \cup {[GoodBlock(0) EXCEPT !.SampleDuration = j] :
            j \in {NoValue, Text, Num(0), Num(0 - BlockDuration)}}
    \cup {[GoodBlock(0) EXCEPT !.InputOrientation = s] :
            s \in {<<>>, <<"X", "Z", "Z">>}}

VectorVariants ==
    UNION {{[GoodBlock(0) EXCEPT !.vec[k] = p] :
                p \in {PayTwo(IntDimOf(k)), PayThree(IntDimOf(k)), PayEmpty,
                       PayArity(IntDimOf(k)),
                       PayBadTok(IntDimOf(k))}} : k \in VecKeysIn}

\* a scalar field absent from the block, or one its conversion rejects
ScalarVariants ==
    {[GoodBlock(0) EXCEPT !.sc[k] = NoValue] : k \in ScalarKeysIn}
    \cup {[GoodBlock(0) EXCEPT !.sc[k] = Text] : k \in {"GPSLatitude", "GPSDateTime"}}

Entries ==
    {NoDoc} \cup {GoodBlock(0), GoodBlock(BlockDuration)}
    \cup HeaderVariants \cup VectorVariants \cup ScalarVariants

\* Main sections: the valid one, and those with one field defective or both
\* fields missing
ValidMain == [VideoFrameRate |-> Num(2), Duration |-> Num(TicksPerSecond)]

InvalidMains ==
    {[VideoFrameRate |-> NoValue, Duration |-> NoValue]}
    \cup {[VideoFrameRate |-> j, Duration |-> Num(TicksPerSecond)] :
            j \in {NoValue, Text, Num(0)}}
    \cup {[VideoFrameRate |-> Num(2), Duration |-> j] : j \in {NoValue, Text, Num(0)}}

\* Input documents: any blocks under the valid Main section; well-formed
\* blocks (which ingestion would accept) under an invalid one
InputDocuments ==
    [Main : {ValidMain}, docs : [1..MaxDocs -> Entries]]
    \cup [Main : InvalidMains,
          docs : [1..MaxDocs -> {GoodBlock(0), GoodBlock(BlockDuration)}]]

InitIngest ==
    /\ IdleOri
    /\ IdleSpeed
    /\ IdleOvrl
    /\ pc = "start"
    /\ dctIn \in InputDocuments
    /\ args = DefaultArgs
    /\ intIdx = 0
    /\ dctOut = EmptyDict
    /\ loc = NoLocals
    /\ exitStatus = -1
    /\ fileOut = "empty"

\* lines 388-429
ParseMain ==
    /\ pc = "start"
    /\ IF MainIsFatal(dctIn.Main)
       THEN /\ pc' = "exit"
            /\ exitStatus' = 1
            /\ UNCHANGED <<intIdx, dctOut, loc>>
       ELSE /\ pc' = "ingest"
            /\ intIdx' = 0
            /\ dctOut' = EmptyDict
            /\ loc' = [NoLocals EXCEPT
                  !.fltFramerate = dctIn.Main.VideoFrameRate.val,
                  !.fltDurationOverall = dctIn.Main.Duration.val,
                  !.slcCalGrav = ProcessCalGravArgs(args.calGrav,
                                                    dctIn.Main.VideoFrameRate.val)]
            /\ UNCHANGED exitStatus
    /\ UNCHANGED <<dctIn, args, fileOut>>
    /\ UNCHANGED varsOri
    /\ UNCHANGED <<varsSpeed, varsOvrl>>

\* one iteration of the loop of lines 430-487
IngestBlock ==
    /\ pc = "ingest"
    /\ intIdx' = intIdx + 1
    /\ LET e == DocAt(dctIn.docs, intIdx + 1)
       IN  IF BlockEndsIngestion(e)
           THEN /\ pc' = "collected"
                /\ UNCHANGED <<dctOut, exitStatus>>
           ELSE IF DurationCompareRaises(e)
           THEN /\ pc' = "raised"
                /\ exitStatus' = 1
                /\ UNCHANGED dctOut
           ELSE \E r \in {IngestEntry(dctOut, e)} :
                    /\ dctOut' = r.out
                    /\ pc' = IF r.raised THEN "raised" ELSE "ingest"
                    /\ exitStatus' = IF r.raised THEN 1 ELSE exitStatus
    /\ UNCHANGED <<dctIn, args, loc, fileOut>>
    /\ UNCHANGED varsOri
    /\ UNCHANGED <<varsSpeed, varsOvrl>>

NextIngest == ParseMain \/ IngestBlock

SpecIngest == InitIngest /\ [][NextIngest]_vars

----------------------------------------------------------------------------
(* Spec: the whole program on documents whose blocks are well-formed *)

MaxPipeDocs == 3

HalfSecond == TicksPerSecond \div 2

\* a block's GPS fix: precise and moving, imprecise, or too slow
GpsKinds == {"precise", "highHdop", "slow"}

HdopOf(kind) ==
    IF kind = "highHdop" THEN DEFAULT_ARG_HDOP + 6 ELSE DEFAULT_ARG_HDOP - 6

SpeedOf(kind) ==
    IF kind = "slow" THEN DEFAULT_ARG_MINSPEED - 1 ELSE DEFAULT_ARG_MINSPEED + 1

\* the j-th block of a document, half a second long, one sample per channel
PipeBlock(j, kind) ==
    [exists |-> TRUE,
     SampleDuration |-> Num(HalfSecond),
     SampleTime |-> Num((j - 1) * HalfSecond),
     InputOrientation |-> <<"Z", "X", "Y">>,
     vec |-> [k \in VecKeysIn |-> PayOne(IntDimOf(k))],
     sc  |-> [k \in ScalarKeysIn |->
                IF k = "GPSHPositioningError" THEN Num(HdopOf(kind))
                ELSE IF k = "GPSSpeed" THEN Num(SpeedOf(kind))
                ELSE Num(7)]]

\* the block without the field keyIn
Without(e, keyIn) ==
    IF keyIn \in VecKeysIn
    THEN [e EXCEPT !.vec[keyIn] = PayEmpty]
    ELSE [e EXCEPT !.sc[keyIn] = NoValue]

DefectKeys ==
    {"GPSHPositioningError", "GPSSpeed", "GPSLatitude", "GPSLongitude",
     "GPSAltitude", "GoPro_CORI", "GoPro_GRAV", "GoPro_IORI", "CameraTemperature"}

\* a channel absent from all blocks, a channel only the first block holds,
\* gravity absent from the first block only (its key then enters dctOut after
\* those of the other channels), every block carrying the same SampleTime
Defects ==
    {[kind |-> "absent", key |-> k] : k \in DefectKeys}
    \cup {[kind |-> "once", key |-> k] : k \in DefectKeys}
    \cup {[kind |-> "late", key |-> "GoPro_GRAV"]}
    \cup {[kind |-> "sameTime", key |-> ""]}

DefectDoc(n, d) ==
    [j \in 1..n |->
        CASE d.kind = "absent"   -> Without(PipeBlock(j, "precise"), d.key)
          [] d.kind = "once"     -> IF j = 1 THEN PipeBlock(j, "precise")
                                    ELSE Without(PipeBlock(j, "precise"), d.key)
          [] d.kind = "late"     -> IF j = 1 THEN Without(PipeBlock(j, "precise"), d.key)
                                    ELSE PipeBlock(j, "precise")
          [] d.kind = "sameTime" -> [PipeBlock(j, "precise") EXCEPT !.SampleTime = Num(0)]]

PipeDocs ==
    UNION {{[j \in 1..n |-> PipeBlock(j, f[j])] : f \in [1..n -> GpsKinds]} :
              n \in 1..MaxPipeDocs}
    \cup {DefectDoc(n, d) : n \in 2..MaxPipeDocs, d \in Defects}

FrameRates == {1, 2, 3}

PipeMains ==
    {[VideoFrameRate |-> Num(f), Duration |-> Num(TicksPerSecond)] : f \in FrameRates}

\* --calGrav: the default, "0-0", "1-1", "0" and "0-"
CalGravArgs ==
    {DEFAULT_ARG_CALGRAV, CalGrav(Num(0), Num(0)), CalGrav(Num(1), Num(1)),
     [strT0 |-> Num(0), strSep |-> FALSE, strT1 |-> Text], CalGrav(Num(0), Text)}

PipeArgs ==
    [calGrav : CalGravArgs, hdop : {DEFAULT_ARG_HDOP}, minspeed : {DEFAULT_ARG_MINSPEED},
     noTCmatch : BOOLEAN, noRPYZero : BOOLEAN, offset : {<<>>}]

Init ==
    /\ IdleOri
    /\ IdleSpeed
    /\ IdleOvrl
    /\ pc = "start"
    /\ \/ dctIn \in [Main : PipeMains, docs : PipeDocs] /\ args \in PipeArgs
       \/ /\ dctIn \in [Main : InvalidMains,
                         docs : {[j \in 1..2 |-> PipeBlock(j, "precise")]}]
          /\ args = DefaultArgs
    /\ intIdx = 0
    /\ dctOut = EmptyDict
    /\ loc = NoLocals
    /\ exitStatus = -1
    /\ fileOut = "empty"

\* lines 492-502
FreezeKeys ==
    /\ pc = "collected"
    /\ pc' = "resample"
    /\ loc' = [loc EXCEPT
          !.arrTNew = Linspace(loc.fltDurationOverall,
                               Round(loc.fltDurationOverall * loc.fltFramerate,
                                     TicksPerSecond)),
          !.lstStrKeys = FrozenKeys(dctOut.keys),
          !.keyIdx = 1]
    /\ UNCHANGED <<dctIn, args, intIdx, dctOut, exitStatus, fileOut>>
    /\ UNCHANGED varsOri
    /\ UNCHANGED <<varsSpeed, varsOvrl>>

\* one iteration of the loop of lines 504-565; an exception ends the run
ResampleKey ==
    /\ pc = "resample"
    /\ loc.keyIdx <= Len(loc.lstStrKeys)
    /\ \E euler \in IF loc.lstStrKeys[loc.keyIdx] \in {"CameraAngle", "ImageAngle"}
                     THEN EulerProfiles
                     ELSE {CHOOSE e \in EulerProfiles : TRUE} :
       \E r \in {ResampleStep(dctOut, loc, euler)} :
          /\ dctOut' = r.out
          /\ loc' = r.loc
          /\ pc' = IF r.raised THEN "raised" ELSE "resample"
          /\ exitStatus' = IF r.raised THEN 1 ELSE exitStatus
    /\ UNCHANGED <<dctIn, args, intIdx, fileOut>>
    /\ UNCHANGED varsOri
    /\ UNCHANGED <<varsSpeed, varsOvrl>>

\* lines 567-606 (dctOffsets of line 406 depends on args and on the frame
\* rate only); the ValueError of line 606 ends the run
ApplyOffsets ==
    /\ pc = "resample"
    /\ loc.keyIdx > Len(loc.lstStrKeys)
    /\ \E dctOffsets \in {ProcessOffsetArgs(args.offset, loc.fltFramerate)} :
       \E r \in {OffsetsApplied(
                    DictSet(dctOut, "Timestamp",
                            [i \in DOMAIN loc.arrTNew |-> Q(loc.arrTNew[i])]),
                    dctOffsets, Len(dctOffsets.keys))} :
          /\ dctOut' = r.out
          /\ pc' = IF r.raised THEN "raised" ELSE "gps"
          /\ exitStatus' = IF r.raised THEN 1 ELSE exitStatus
    /\ UNCHANGED <<dctIn, args, intIdx, loc, fileOut>>
    /\ UNCHANGED varsOri
    /\ UNCHANGED <<varsSpeed, varsOvrl>>

\* lines 615-653
DeriveGPS ==
    /\ pc = "gps"
    /\ IF GPSRaises(dctOut, loc)
       THEN /\ pc' = "raised"
            /\ exitStatus' = 1
            /\ UNCHANGED <<dctOut, loc>>
       ELSE \E r \in {GPSKinematics(dctOut, loc, args)} :
                /\ dctOut' = r.out
                /\ loc' = r.loc
                /\ pc' = "yaw"
                /\ UNCHANGED exitStatus
    /\ UNCHANGED <<dctIn, args, intIdx, fileOut>>
    /\ UNCHANGED varsOri
    /\ UNCHANGED <<varsSpeed, varsOvrl>>

\* lines 657-685; KeyError when dctOut has no "CameraAngle"
MatchYaw ==
    /\ pc = "yaw"
    /\ IF args.noTCmatch /\ args.noRPYZero
       THEN /\ pc' = "wrap"
            /\ UNCHANGED <<dctOut, exitStatus>>
       ELSE IF ~DictHas(dctOut, "CameraAngle")
       THEN /\ pc' = "raised"
            /\ exitStatus' = 1
            /\ UNCHANGED dctOut
       ELSE \E yaw \in YawOutcomes(CountUnmasked(dctOut.val["TrueCourse"])) :
                /\ dctOut' = DictSet(dctOut, "CameraAngle",
                                AdjustedAngles(dctOut.val["CameraAngle"], yaw,
                                               args.noRPYZero, loc.arrTNew,
                                               dctOut.val["TrueCourse"]))
                /\ pc' = "wrap"
                /\ UNCHANGED exitStatus
    /\ UNCHANGED <<dctIn, args, intIdx, loc, fileOut>>
    /\ UNCHANGED varsOri
    /\ UNCHANGED <<varsSpeed, varsOvrl>>

\* lines 689-690; KeyError when dctOut has no "CameraAngle"
WrapAngles ==
    /\ pc = "wrap"
    /\ IF ~DictHas(dctOut, "CameraAngle")
       THEN /\ pc' = "raised"
            /\ exitStatus' = 1
            /\ UNCHANGED dctOut
       ELSE /\ dctOut' = DictSet(DictSet(dctOut, "CameraAngle",
                                         Wrapped(dctOut.val["CameraAngle"])),
                                 "TrueCourse", WrappedCourse(dctOut.val["TrueCourse"]))
            /\ pc' = "write"
            /\ UNCHANGED exitStatus
    /\ UNCHANGED <<dctIn, args, intIdx, loc, fileOut>>
    /\ UNCHANGED varsOri
    /\ UNCHANGED <<varsSpeed, varsOvrl>>

\* lines 693-696: json.dump succeeds, or fails on the stream and the except
\* clause reports it; the program ends either way
WriteOutput ==
    /\ pc = "write"
    /\ \E ok \in BOOLEAN : fileOut' = IF ok THEN "written" ELSE "failed"
    /\ pc' = "done"
    /\ exitStatus' = 0
    /\ UNCHANGED <<dctIn, args, intIdx, dctOut, loc>>
    /\ UNCHANGED varsOri
    /\ UNCHANGED <<varsSpeed, varsOvrl>>

Next ==
    \/ ParseMain
    \/ IngestBlock
    \/ FreezeKeys
    \/ ResampleKey
    \/ ApplyOffsets
    \/ DeriveGPS
    \/ MatchYaw
    \/ WrapAngles
    \/ WriteOutput

Spec == Init /\ [][Next]_vars

----------------------------------------------------------------------------
(* SpecOffset: the whole program on recordings whose channels vary from
   block to block, with --offset arguments *)

\* the j-th block: precise GPS, temperature and gravity changing over time
OffsetBlock(j) ==
    [PipeBlock(j, "precise") EXCEPT
        !.sc["CameraTemperature"] = Num(j * j + 6),
        !.vec["GoPro_GRAV"] = [i \in 1..3 |-> Num(i * j * j)]]

OffsetDocs == {[j \in 1..n |-> OffsetBlock(j)] : n \in 2..MaxPipeDocs}

\* a string RE_OFFSET does not match
NoMatch == [OffsetArg("", JInvalid, NoValue, NoValue, "") EXCEPT !.match = FALSE]

\* K=V:T0-T1 with V a number
Plain(strKey, x, strT0, strT1) == OffsetArg(strKey, JNumber(x), strT0, strT1, "")

\* --offset strings: windows "-", "0-0.5", "0.5-", "0-0", "0.75-0.5", "5-6";
\* the methods;
\* values that are no numbers; keys dctOut lacks; vector values
OffsetStrings ==
    { Plain("Temperature", 20, NoValue, NoValue),
      Plain("Temperature", 20, Num(0), Num(HalfSecond)),
      Plain("Temperature", 20, Num(HalfSecond), NoValue),
      Plain("Temperature", 20, Num(0), Num(0)),
      Plain("Temperature", 20, Num((3 * HalfSecond) \div 2), Num(HalfSecond)),
      Plain("Temperature", 20, Num(5 * TicksPerSecond), Num(6 * TicksPerSecond)),
      OffsetArg("Temperature", JNumber(20), NoValue, NoValue, "mean"),
      OffsetArg("Temperature", JNumber(20), NoValue, NoValue, "meanPower"),
      OffsetArg("Temperature", JNumber(20), NoValue, NoValue, "bogus"),
      OffsetArg("Temperature", JString, NoValue, NoValue, ""),
      OffsetArg("Temperature", JTrue, NoValue, NoValue, ""),
      OffsetArg("Temperature", JNaN, NoValue, NoValue, ""),
      OffsetArg("Temperature", JInvalid, NoValue, NoValue, ""),
      OffsetArg("Temperature", JList(<<1, 2, 3>>), NoValue, NoValue, ""),
      NoMatch,
      Plain("Nope", 20, NoValue, NoValue),
      Plain("TrueCourse", 1, NoValue, NoValue),
      Plain("GPSHorizontalError", 20, NoValue, NoValue),
      Plain("Gravity", 1, NoValue, NoValue),
      OffsetArg("Gravity", JList(<<0, 0, 1>>), NoValue, NoValue, ""),
      OffsetArg("Gravity", JList(<<0, 0, 1>>), Num(5 * TicksPerSecond),
                Num(6 * TicksPerSecond), ""),
      OffsetArg("Gravity", JList(<<1, 2>>), NoValue, NoValue, ""),
      OffsetArg("Gravity", JString, NoValue, NoValue, ""),
      OffsetArg("CameraAngle", JList(<<0, 0, 0>>), Num(0), Num(HalfSecond), ""),
      OffsetArg("CameraAngle", JList(<<0, 0, 0>>), Num(5 * TicksPerSecond),
                Num(6 * TicksPerSecond), "") }

\* the strings combined with every other one
OffsetSeconds ==
    { Plain("Temperature", 20, NoValue, NoValue),
      Plain("Temperature", 30, Num(0), Num(HalfSecond)),
      Plain("GPSHorizontalError", 20, NoValue, NoValue),
      Plain("Temperature", 20, Num(5 * TicksPerSecond), Num(6 * TicksPerSecond)),
      OffsetArg("Gravity", JList(<<0, 0, 1>>), NoValue, NoValue, "mean"),
      OffsetArg("Gravity", JList(<<0, 0, 1>>), Num(5 * TicksPerSecond),
                Num(6 * TicksPerSecond), "") }

\* args.offset: no, one or two --offset options
OffsetLists ==
    {<<>>}
    \cup {<<a>> : a \in OffsetStrings}
    \cup {<<a, b>> : a \in OffsetStrings, b \in OffsetSeconds}
    \cup {<<b, a>> : a \in OffsetStrings, b \in OffsetSeconds}

InitOffset ==
    /\ IdleOri
    /\ IdleSpeed
    /\ IdleOvrl
    /\ pc = "start"
    /\ dctIn \in [Main : PipeMains, docs : OffsetDocs]
    /\ args \in [calGrav : {DEFAULT_ARG_CALGRAV}, hdop : {DEFAULT_ARG_HDOP},
                 minspeed : {DEFAULT_ARG_MINSPEED}, noTCmatch : {FALSE},
                 noRPYZero : BOOLEAN, offset : OffsetLists]
    /\ intIdx = 0
    /\ dctOut = EmptyDict
    /\ loc = NoLocals
    /\ exitStatus = -1
    /\ fileOut = "empty"

SpecOffset == InitOffset /\ [][Next]_vars

----------------------------------------------------------------------------
(* SpecTimeline: Main sections of many durations and frame rates, up to the
   timeline of lines 492-493 *)

\* the longest Duration, in ticks
MaxDuration == 36

MaxFrameRate == 4

\* Durations and frame rates whose timeline has whole ticks: a duration below
\* half a frame (no entry), of one frame (one entry), and longer ones
TimelineMains ==
    {[VideoFrameRate |-> Num(f), Duration |-> Num(D)] :
        <<D, f>> \in {x \in (1..MaxDuration) \X (1..MaxFrameRate) :
                         LET n == Round(x[1] * x[2], TicksPerSecond)
                         IN  n < 2 \/ x[1] % (n - 1) = 0}}

InitTimeline ==
    /\ IdleOri
    /\ IdleSpeed
    /\ IdleOvrl
    /\ pc = "start"
    /\ dctIn \in [Main : TimelineMains,
                  docs : {[j \in 1..2 |-> PipeBlock(j, "precise")]}]
    /\ args = DefaultArgs
    /\ intIdx = 0
    /\ dctOut = EmptyDict
    /\ loc = NoLocals
    /\ exitStatus = -1
    /\ fileOut = "empty"

NextTimeline == ParseMain \/ IngestBlock \/ FreezeKeys

SpecTimeline == InitTimeline /\ [][NextTimeline]_vars

----------------------------------------------------------------------------
(* genFilterComplexSpeedChange.py: times and speed factors are exact
   fractions; a --change string is the list of its fields between colons *)

\* the largest time a --change names, in seconds
MaxTime == 3

\* the most --change options of a command line
MaxChanges == 3

\* the entries lstATempo can hold before the append raises MemoryError
MaxATempo == 4

\* float("infinity"): above every time of the model
Infinity == Q(MaxTime + 10)

QLeq(a, b) == ~IsNaN(a) /\ ~IsNaN(b) /\ a.n * b.d <= b.n * a.d

\* a field of strParams.split(":"): a number, the empty string, a text that
\* float() rejects
Field(q)   == [kind |-> "num", val |-> q]
EmptyField == [kind |-> "empty", val |-> Q(0)]
TextField  == [kind |-> "str", val |-> Q(0)]

\* processFloatFromList: the value and the fields left, or ValueError.
\* strMissing is a string in every call, so a missing field raises.
ProcessFloatFromList(lstParams, fltDefaultMissing) ==
    IF lstParams = <<>>
    THEN [raised |-> TRUE, fltValue |-> Q(0), rest |-> <<>>]
    ELSE LET f == Head(lstParams)
             fltValue == IF f.kind = "empty" THEN fltDefaultMissing ELSE f.val
         IN  [raised |-> f.kind = "str" \/ QLess(fltValue, Q(0)),
              fltValue |-> fltValue, rest |-> Tail(lstParams)]

\* an entry of lstChange: the tuple (fltStart, fltEnd, fltSpeed)
Change(fltStart, fltEnd, fltSpeed) ==
    [fltStart |-> fltStart, fltEnd |-> fltEnd, fltSpeed |-> fltSpeed]

\* lines 100-108: the parsed change, or ValueError (the argument is ignored)
ParseChange(lstParams) ==
    LET s  == ProcessFloatFromList(lstParams, Q(0))
        e  == ProcessFloatFromList(s.rest, Infinity)
        sp == ProcessFloatFromList(e.rest, Q(1))
    IN  IF s.raised \/ e.raised \/ sp.raised
        THEN [raised |-> TRUE, change |-> Change(Q(0), Q(0), Q(0))]
        ELSE [raised |-> QLeq(e.fltValue, s.fltValue),
              change |-> Change(s.fltValue, e.fltValue, sp.fltValue)]

\* the loop of lines 111-169 from entry i on: it ends at the first entry
\* for which one of its branches breaks
RECURSIVE OverlapLoop(_, _, _, _, _)
OverlapLoop(lst, c, i, force, fltDuration) ==
    IF i > Len(lst)
    THEN [lst |-> lst, change |-> c, boolIgnore |-> FALSE]
    ELSE LET x == lst[i]
         IN  IF QLess(c.fltStart, x.fltStart)
             THEN IF QLeq(c.fltEnd, x.fltStart)
                  THEN \* case 1
                       [lst |-> lst, change |-> c, boolIgnore |-> FALSE]
                  ELSE IF QLeq(c.fltEnd, x.fltEnd)
                  THEN \* case 2
                       [lst |-> lst,
                        change |-> IF force THEN c
                                   ELSE [c EXCEPT !.fltEnd = x.fltStart],
                        boolIgnore |-> FALSE]
                  ELSE \* case 3
                       [lst |-> IF force THEN lst ELSE [lst EXCEPT ![i] = c],
                        change |-> c, boolIgnore |-> ~force]
             ELSE IF QLess(c.fltStart, x.fltEnd)
             THEN IF QLess(x.fltEnd, c.fltEnd)
                  THEN \* case 4
                       [lst |-> lst,
                        change |-> IF force THEN c
                                   ELSE [c EXCEPT !.fltStart = x.fltEnd],
                        boolIgnore |-> FALSE]
                  ELSE \* case 5
                       [lst |-> lst, change |-> c, boolIgnore |-> ~force]
             ELSE IF QLess(fltDuration, c.fltEnd)
             THEN [lst |-> lst,
                   change |-> IF force THEN c ELSE [c EXCEPT !.fltEnd = Infinity],
                   boolIgnore |-> FALSE]
             ELSE IF QLess(fltDuration, c.fltStart)
             THEN [lst |-> lst, change |-> c, boolIgnore |-> ~force]
             ELSE OverlapLoop(lst, c, i + 1, force, fltDuration)

\* one iteration of the loop of lines 97-172
ProcessChange(lst, lstParams, force, fltDuration) ==
    LET p == ParseChange(lstParams)
        r == OverlapLoop(lst, p.change, 1, force, fltDuration)
    IN  IF p.raised THEN lst
        ELSE IF r.boolIgnore THEN r.lst
        ELSE Append(r.lst, r.change)

\* the order of tuples: by the first component that differs
ChangeLess(a, b) ==
    \/ QLess(a.fltStart, b.fltStart)
    \/ (a.fltStart = b.fltStart /\ QLess(a.fltEnd, b.fltEnd))
    \/ (a.fltStart = b.fltStart /\ a.fltEnd = b.fltEnd /\ QLess(a.fltSpeed, b.fltSpeed))

InsertAt(lst, i, x) == SubSeq(lst, 1, i - 1) \o <<x>> \o SubSeq(lst, i, Len(lst))

\* lstChange.sort()
RECURSIVE SortChanges(_)
SortChanges(lst) ==
    IF lst = <<>> THEN <<>>
    ELSE LET rest == SortChanges(Tail(lst))
             k == Cardinality({j \in DOMAIN rest : ChangeLess(rest[j], Head(lst))})
         IN  InsertAt(rest, k + 1, Head(lst))

\* the loop of lines 178-186 from position i on: the list iterator meets the
\* entry at position i of the list as it is then, insertions included
RECURSIVE FillLoop(_, _, _, _)
FillLoop(lst, i, fltT, force) ==
    IF i > Len(lst)
    THEN [lst |-> lst, fltT |-> fltT]
    ELSE LET x == lst[i]
         IN  FillLoop(IF QLess(fltT, x.fltStart) /\ ~force
                      THEN InsertAt(lst, i, Change(fltT, x.fltStart, Q(1)))
                      ELSE lst,
                      i + 1, x.fltEnd, force)

\* lines 176-193
FillGaps(lst, force, fltDuration) ==
    LET r == FillLoop(SortChanges(lst), 1, Q(0), force)
    IN  IF r.fltT # Infinity /\ QLess(r.fltT, fltDuration) /\ ~force
        THEN Append(r.lst, Change(r.fltT, Infinity, Q(1)))
        ELSE r.lst

\* lines 206-219: the while loop of the branch taken is at its test
InFastLoop(fltSpeed, fltASpeed) == QLess(Q(1), fltSpeed) /\ QLess(Q(2), fltASpeed)

InSlowLoop(fltSpeed, fltASpeed) ==
    ~QLess(Q(1), fltSpeed) /\ QLess(fltSpeed, Q(1)) /\ QLess(fltASpeed, Q(1))

\* lines 210-211, 216-219: the list after the loop of the branch taken
ATempoDone(fltSpeed, fltASpeed, lstATempo) ==
    IF QLess(Q(1), fltSpeed) \/ QLess(fltSpeed, Q(1))
    THEN IF fltASpeed # Q(1) THEN Append(lstATempo, fltASpeed) ELSE lstATempo
    ELSE Append(lstATempo, Q(1))

----------------------------------------------------------------------------
(* SpecSpeed: genFilterComplexSpeedChange.py from the parsed command line
   and the probed duration to the printed filter expression *)

\* fltDuration of the probed video, in seconds
VideoDuration == Q(MaxTime - 1)

Half == Frac(1, 2)

\* --change TS:TE:2 for every start (empty: 0) and end (empty: infinity),
\* those with TE <= TS included; an empty speed factor; arguments that are
\* ignored for a missing, non-numeric or negative field
ChangeStrings ==
    {<<ts, te, Field(Q(2))>> :
        ts \in {EmptyField} \cup {Field(Q(t)) : t \in 1..(MaxTime - 1)},
        te \in {EmptyField} \cup {Field(Q(t)) : t \in 1..MaxTime}}
    \cup { <<Field(Q(1)), Field(Q(2)), EmptyField>>,
           <<EmptyField>>,
           <<Field(Q(1)), Field(Q(2))>>,
           <<TextField, Field(Q(1)), Field(Q(2))>>,
           <<Field(Q(0 - 1)), Field(Q(1)), Field(Q(2))>> }

\* speed factors of a --change that covers the whole video
SpeedFactors ==
    {Q(0), Frac(1, 4), Half, Frac(3, 4), Q(1), Frac(3, 2), Q(2), Q(3), Q(5)}

SpeedStrings == {<<EmptyField, EmptyField, Field(sp)>> : sp \in SpeedFactors}

NoSegment == [intIdx |-> 0, fltASpeed |-> Q(0), lstATempo |-> <<>>]

\* one or two --change arguments with a speed factor each: the whole video,
\* or its first second and the rest
SpeedLists ==
    {<<c>> : c \in SpeedStrings}
    \cup {<<<<EmptyField, Field(Q(1)), Field(s1)>>,
            <<Field(Q(1)), EmptyField, Field(s2)>>>> :
            s1 \in SpeedFactors, s2 \in {Q(0), Half, Q(5)}}

InitSpeedOver(lstLists) ==
    /\ IdleOri
    /\ IdleMain
    /\ IdleOvrl
    /\ spPc = "change"
    /\ spArgs \in [change : lstLists, force : BOOLEAN,
                   fltDuration : {VideoDuration}]
    /\ lstChange = <<>>
    /\ spLoc = [NoSegment EXCEPT !.intIdx = 1]
    /\ lstFilter = <<>>

InitSpeed ==
    InitSpeedOver(SeqsUpTo(ChangeStrings, MaxChanges)
                  \cup {<<c>> : c \in SpeedStrings})

InitSpeedFair == InitSpeedOver(SpeedLists)

\* one iteration of the loop of lines 97-172
ChangeStep ==
    /\ spPc = "change"
    /\ spLoc.intIdx <= Len(spArgs.change)
    /\ lstChange' = ProcessChange(lstChange, spArgs.change[spLoc.intIdx],
                                  spArgs.force, spArgs.fltDuration)
    /\ spLoc' = [spLoc EXCEPT !.intIdx = @ + 1]
    /\ UNCHANGED <<spPc, spArgs, lstFilter>>
    /\ UNCHANGED <<varsOri, varsMain, varsOvrl>>

\* lines 176-198
FillStep ==
    /\ spPc = "change"
    /\ spLoc.intIdx > Len(spArgs.change)
    /\ lstChange' = FillGaps(lstChange, spArgs.force, spArgs.fltDuration)
    /\ spPc' = "filter"
    /\ spLoc' = [NoSegment EXCEPT !.intIdx = 1]
    /\ UNCHANGED <<spArgs, lstFilter>>
    /\ UNCHANGED <<varsOri, varsMain, varsOvrl>>

\* lines 199-205: the next entry of lstChange
SegmentStep ==
    /\ spPc = "filter"
    /\ spLoc.intIdx <= Len(lstChange)
    /\ spPc' = "atempo"
    /\ spLoc' = [spLoc EXCEPT !.fltASpeed = lstChange[spLoc.intIdx].fltSpeed,
                              !.lstATempo = <<>>]
    /\ UNCHANGED <<spArgs, lstChange, lstFilter>>
    /\ UNCHANGED <<varsOri, varsMain, varsOvrl>>

\* lines 207-209 and 213-215: one iteration of the while loop; the append
\* raises MemoryError once the list has used up the memory
ATempoStep ==
    /\ spPc = "atempo"
    /\ LET fltSpeed == lstChange[spLoc.intIdx].fltSpeed
       IN  /\ InFastLoop(fltSpeed, spLoc.fltASpeed) \/ InSlowLoop(fltSpeed, spLoc.fltASpeed)
           /\ IF Len(spLoc.lstATempo) >= MaxATempo
              THEN /\ spPc' = "raised"
                   /\ UNCHANGED spLoc
              ELSE /\ spPc' = "atempo"
                   /\ spLoc' = IF InFastLoop(fltSpeed, spLoc.fltASpeed)
                               THEN [spLoc EXCEPT
                                        !.lstATempo = Append(@, Q(2)),
                                        !.fltASpeed = QDiv(@, Q(2))]
                               ELSE [spLoc EXCEPT
                                        !.lstATempo = Append(@, Half),
                                        !.fltASpeed = QMul(@, Q(2))]
    /\ UNCHANGED <<spArgs, lstChange, lstFilter>>
    /\ UNCHANGED <<varsOri, varsMain, varsOvrl>>

\* lines 210-234: the loop has ended; the two filter strings of the entry
FilterStep ==
    /\ spPc = "atempo"
    /\ LET c == lstChange[spLoc.intIdx]
       IN  /\ ~InFastLoop(c.fltSpeed, spLoc.fltASpeed)
           /\ ~InSlowLoop(c.fltSpeed, spLoc.fltASpeed)
           /\ lstFilter' = Append(lstFilter,
                  [fltStart |-> c.fltStart, fltEnd |-> c.fltEnd,
                   fltSpeed |-> c.fltSpeed,
                   lstATempo |-> ATempoDone(c.fltSpeed, spLoc.fltASpeed,
                                            spLoc.lstATempo)])
    /\ spPc' = "filter"
    /\ spLoc' = [NoSegment EXCEPT !.intIdx = spLoc.intIdx + 1]
    /\ UNCHANGED <<spArgs, lstChange>>
    /\ UNCHANGED <<varsOri, varsMain, varsOvrl>>

\* lines 236-244, with the default --out
PrintStep ==
    /\ spPc = "filter"
    /\ spLoc.intIdx > Len(lstChange)
    /\ spPc' = "done"
    /\ UNCHANGED <<spArgs, lstChange, spLoc, lstFilter>>
    /\ UNCHANGED <<varsOri, varsMain, varsOvrl>>

NextSpeed ==
    \/ ChangeStep
    \/ FillStep
    \/ SegmentStep
    \/ ATempoStep
    \/ FilterStep
    \/ PrintStep

SpecSpeed == InitSpeed /\ [][NextSpeed]_vars

\* the interpreter runs the program's next statement as long as there is one
SpecSpeedFair == InitSpeedFair /\ [][NextSpeed]_vars /\ WF_vars(NextSpeed)

----------------------------------------------------------------------------
(* addOverlay.py, Overlay.loadOVRL.  A line of the file is what rstrip, the
   comment test and RE_TOKENISER make of it: a line that is skipped, a line
   the expression does not match, or the groups strTab, strIdentifier,
   strExpression.  The expression of a 'uses' line is the list of its module
   names; a command object carries the index of the line that created it,
   so that two references to one object are told from two objects. *)

\* the most lines of an OVRL file
MaxLines == 3

SkippedLine   == [kind |-> "skip", strTab |-> FALSE,
                  strIdentifier |-> "", strExpression |-> <<>>]
MalformedLine == [kind |-> "malformed", strTab |-> FALSE,
                  strIdentifier |-> "", strExpression |-> <<>>]
TokenLine(strTab, strIdentifier, strExpression) ==
    [kind |-> "token", strTab |-> strTab,
     strIdentifier |-> strIdentifier, strExpression |-> strExpression]

\* sys.stdlib_module_names, as far as the files name modules
StdlibModuleNames == {"math"}

\* the accepted arguments of the three commands, as far as the files use them
LstArgsAccepted(strCmd) ==
    CASE strCmd = "image" -> {"file", "size"}
      [] strCmd = "print" -> {"text", "size"}
      [] strCmd = "mask"  -> {"file"}

ArgNone     == [kind |-> "None", expr |-> ""]
ArgCode(e)  == [kind |-> "code", expr |-> e]
ArgValue(e) == [kind |-> "value", expr |-> e]

\* OverlayCommandImage(), OverlayCommandText(), OverlayCommandMask()
NewCommand(strCmd, idx) ==
    [id |-> idx, strCmd |-> strCmd,
     dctArgs |-> [a \in LstArgsAccepted(strCmd) |-> ArgNone]]

\* compile(strExpression, "<string>", "eval") raises SyntaxError
IsSyntaxError(strExpression) == strExpression = "("

\* the outcome of cmdOverlay.setArgument(strArg, strExpression)
SetArgumentRaises(cmd, strArg, strExpression) ==
    \/ strArg \notin LstArgsAccepted(cmd.strCmd)
    \/ IsSyntaxError(strExpression)

SetArgument(cmd, strArg, strExpression) ==
    [cmd EXCEPT !.dctArgs[strArg] = ArgCode(strExpression)]

\* self._dctArgs.update(other._dctArgs)
CopyArguments(cmd, other) ==
    [cmd EXCEPT !.dctArgs =
        [a \in DOMAIN cmd.dctArgs \cup DOMAIN other.dctArgs |->
            IF a \in DOMAIN other.dctArgs THEN other.dctArgs[a]
            ELSE cmd.dctArgs[a]]]

\* evaluateArguments without telemetry: a code object becomes its value
EvaluateArguments(cmd) ==
    [cmd EXCEPT !.dctArgs =
        [a \in DOMAIN cmd.dctArgs |->
            IF cmd.dctArgs[a].kind = "code"
            THEN ArgValue(cmd.dctArgs[a].expr) ELSE cmd.dctArgs[a]]]

\* a change of the object cmd shows through every reference to it
Referenced(lst, cmd) ==
    [k \in DOMAIN lst |-> IF lst[k].id = cmd.id THEN cmd ELSE lst[k]]

\* lines 569-572: the arguments of the most recent command of the same type
WithRecentArguments(lst, cmd) ==
    LET same == {k \in DOMAIN lst : lst[k].strCmd = cmd.strCmd}
    IN  IF same = {} THEN cmd ELSE CopyArguments(cmd, lst[Max(same)])

\* lines 545-572: an un-indented line
CommandLine(line, idx, lst, cur, tainted) ==
    LET lst1 == IF cur # <<>> THEN Append(lst, cur[1]) ELSE lst
        id == line.strIdentifier
        isCmd == id \in {"image", "print", "mask"}
        cur1 == IF isCmd THEN <<NewCommand(id, idx)>> ELSE cur
        warned == \/ (id = "uses" /\ \E k \in DOMAIN line.strExpression :
                          line.strExpression[k] \notin StdlibModuleNames)
                  \/ (id # "uses" /\ ~isCmd)
        cur2 == IF cur1 = <<>> THEN cur1
                ELSE <<WithRecentArguments(lst1, cur1[1])>>
    IN  [lstCommands |-> IF cur2 = <<>> THEN lst1 ELSE Referenced(lst1, cur2[1]),
         cmdOverlay |-> cur2,
         boolIsTainted |-> tainted \/ warned]

\* lines 573-583: an indented line
ArgumentLine(line, lst, cur, tainted) ==
    IF cur = <<>>
    THEN [lstCommands |-> lst, cmdOverlay |-> cur, boolIsTainted |-> TRUE]
    ELSE IF SetArgumentRaises(cur[1], line.strIdentifier, line.strExpression)
    THEN [lstCommands |-> lst, cmdOverlay |-> cur, boolIsTainted |-> TRUE]
    ELSE LET cmd == SetArgument(cur[1], line.strIdentifier, line.strExpression)
         IN  [lstCommands |-> Referenced(lst, cmd), cmdOverlay |-> <<cmd>>,
              boolIsTainted |-> tainted]

\* lines 533-583: one iteration of the loop over the lines
ProcessLine(line, idx, lst, cur, tainted) ==
    CASE line.kind = "skip" ->
            [lstCommands |-> lst, cmdOverlay |-> cur, boolIsTainted |-> tainted]
      [] line.kind = "malformed" ->
            [lstCommands |-> lst, cmdOverlay |-> cur, boolIsTainted |-> TRUE]
      [] line.kind = "token" ->
            IF line.strTab THEN ArgumentLine(line, lst, cur, tainted)
            ELSE CommandLine(line, idx, lst, cur, tainted)

----------------------------------------------------------------------------
(* SpecOvrl: Overlay.loadOVRL over the files of up to MaxLines lines *)

OvrlLines ==
    { SkippedLine, MalformedLine,
      TokenLine(FALSE, "uses", <<"math">>),
      TokenLine(FALSE, "uses", <<"math", "numpy">>),
      TokenLine(FALSE, "image", <<>>),
      TokenLine(FALSE, "print", <<>>),
      TokenLine(FALSE, "mask", <<>>),
      TokenLine(FALSE, "paste", <<>>),
      TokenLine(TRUE, "file", "1"),
      TokenLine(TRUE, "size", "2"),
      TokenLine(TRUE, "size", "(") }

InitOvrl ==
    /\ IdleOri
    /\ IdleMain
    /\ IdleSpeed
    /\ ovPc = "start"
    /\ fOvrl \in SeqsUpTo(OvrlLines, MaxLines)
    /\ intIdxLine = 0
    /\ lstCommands = <<>>
    /\ cmdOverlay = <<>>
    /\ boolIsTainted = FALSE
    /\ lstSteps = <<>>

\* the index enumerate gives the next line, if the file has one
NextLineIndex == IF ovPc = "start" THEN 0 ELSE intIdxLine + 1

\* lines 532-583: the next line of the file
LoadLine ==
    /\ ovPc \in {"start", "loop"}
    /\ NextLineIndex < Len(fOvrl)
    /\ \E r \in {ProcessLine(fOvrl[NextLineIndex + 1], NextLineIndex,
                             lstCommands, cmdOverlay, boolIsTainted)} :
          /\ lstCommands' = r.lstCommands
          /\ cmdOverlay' = r.cmdOverlay
          /\ boolIsTainted' = r.boolIsTainted
    /\ intIdxLine' = NextLineIndex
    /\ ovPc' = "loop"
    /\ UNCHANGED <<fOvrl, lstSteps>>
    /\ UNCHANGED <<varsOri, varsMain, varsSpeed>>

\* lines 585-594: all lines processed
LoadEnd ==
    /\ ovPc \in {"start", "loop"}
    /\ NextLineIndex >= Len(fOvrl)
    /\ \E lst \in {IF cmdOverlay # <<>> THEN Append(lstCommands, cmdOverlay[1])
                   ELSE lstCommands} :
          IF boolIsTainted
          THEN /\ ovPc' = "raised"
               /\ lstCommands' = lst
               /\ UNCHANGED lstSteps
          ELSE /\ ovPc' = "done"
               /\ lstCommands' = [k \in DOMAIN lst |-> EvaluateArguments(lst[k])]
               /\ lstSteps' = lstCommands'
    /\ UNCHANGED <<fOvrl, intIdxLine, cmdOverlay, boolIsTainted>>
    /\ UNCHANGED <<varsOri, varsMain, varsSpeed>>

NextOvrl ==
    \/ LoadLine
    \/ LoadEnd

SpecOvrl == InitOvrl /\ [][NextOvrl]_vars

----------------------------------------------------------------------------
(* C1: Orientation construction with an input string that is not a
   case-insensitive permutation of the alphabet (wrong length, a letter
   outside the alphabet, a repeated letter) never raises and yields exactly
   the index mapping and the sign vector of the supplied default sequence. *)

IsPermutationOfAxes(strIn, strAxes) ==
    /\ Len(strIn) = Len(strAxes)
    /\ Range(LowerStr(strIn)) = Range(LowerStr(strAxes))

C1_InvalidInputYieldsDefault ==
    (oriPc # "new" /\ ~IsPermutationOfAxes(oriArgs.strIn, oriArgs.strAxes))
        => /\ ~ori.raised
           /\ ori.dctMap = DctMap(oriArgs.strDefault, oriArgs.strAxes)
           /\ ori.dctSign = IF oriArgs.boolParseSign
                             THEN DctSign(oriArgs.strDefault, oriArgs.strAxes)
                             ELSE <<>>

\* The part of C1 the code keeps: a string of the wrong length whose letters
\* all belong to the alphabet does fall back to the supplied default.
C1_WrongLengthYieldsDefault ==
    (/\ oriPc # "new"
     /\ Len(oriArgs.strIn) # Len(oriArgs.strAxes)
     /\ AllInAxes(oriArgs.strIn, oriArgs.strAxes))
        => /\ ~ori.raised
           /\ ori.dctMap = DctMap(oriArgs.strDefault, oriArgs.strAxes)
           /\ ori.dctSign = IF oriArgs.boolParseSign
                             THEN DctSign(oriArgs.strDefault, oriArgs.strAxes)
                             ELSE <<>>

----------------------------------------------------------------------------
(* What the claims expect of a block, stated without the model's operators *)

NextEntry == DocAt(dctIn.docs, intIdx + 1)

\* the block can be read and its header is numeric with a positive duration
HeaderOk(e) ==
    /\ e.exists
    /\ IsNum(e.SampleTime)
    /\ IsNum(e.SampleDuration)
    /\ e.SampleDuration.val > 0

VecUnconvertible(e, ch) ==
    \/ Len(e.vec[ch.keyIn]) = 0
    \/ \E i \in DOMAIN e.vec[ch.keyIn] : e.vec[ch.keyIn][i].kind # "num"
    \/ Len(e.vec[ch.keyIn]) % ch.intDim # 0

\* samples a block is expected to add to an output key
ExpectedSamples(e, keyOut) ==
    IF keyOut \in VecKeysOut
    THEN LET ch == VecChannels[CHOOSE i \in DOMAIN VecChannels :
                                  VecChannels[i].keyOut = keyOut]
         IN  IF VecUnconvertible(e, ch) THEN 0
             ELSE Len(e.vec[ch.keyIn]) \div ch.intDim
    ELSE LET ch == ScalarChannels[CHOOSE i \in DOMAIN ScalarChannels :
                                     ScalarChannels[i].keyOut = keyOut]
         IN  IF e.sc[ch.keyIn].kind = "num" THEN 1 ELSE 0

HasUnconvertibleChannel(e) ==
    \/ \E i \in DOMAIN VecChannels : VecUnconvertible(e, VecChannels[i])
    \/ \E i \in DOMAIN ScalarChannels : e.sc[ScalarChannels[i].keyIn].kind # "num"

\* the first index at which C4 says ingestion stops
StopsIngestion(e) ==
    \/ ~e.exists
    \/ e.SampleTime.kind = "none"
    \/ e.SampleDuration.kind = "none"
    \/ (e.SampleDuration.kind = "num" /\ e.SampleDuration.val <= 0)

FirstStop(docs) ==
    CHOOSE k \in 1..(Len(docs) + 1) :
        /\ StopsIngestion(DocAt(docs, k))
        /\ \A i \in 1..(k - 1) : ~StopsIngestion(DocAt(docs, i))

RECURSIVE ExpectedTotal(_, _, _)
ExpectedTotal(docs, keyOut, n) ==
    IF n = 0 THEN 0
    ELSE ExpectedTotal(docs, keyOut, n - 1) + ExpectedSamples(docs[n], keyOut)

----------------------------------------------------------------------------
(* C2: for every block whose SampleTime is missing or bad (not a number),
   ingestion stops before that block: the block contributes no sample to any
   channel, every channel's series keeps its length, and the run does not
   raise. *)

C2_BadSampleTimeStopsIngestion ==
    [][(/\ pc = "ingest"
        /\ NextEntry.exists
        /\ NextEntry.SampleTime.kind # "num"
        /\ NextEntry.SampleDuration.kind = "num")
          => (pc' = "collected" /\ dctOut' = dctOut)]_vars

\* The part of C2 the code keeps: a block without SampleTime ends ingestion.
C2_MissingSampleTimeStopsIngestion ==
    [][(/\ pc = "ingest"
        /\ NextEntry.exists
        /\ NextEntry.SampleTime.kind = "none")
          => (pc' = "collected" /\ dctOut' = dctOut)]_vars

----------------------------------------------------------------------------
(* C3: if a channel's payload in a block cannot be converted (a non-numeric
   token, an empty payload, a token count that is no multiple of the
   dimension, an unconvertible scalar field), that channel receives zero
   samples from the block, every other channel receives its samples, and
   ingestion continues with the next block without raising. *)

C3_UnconvertibleChannelIsSkipped ==
    [][(/\ pc = "ingest"
        /\ HeaderOk(NextEntry)
        /\ HasUnconvertibleChannel(NextEntry))
          => /\ pc' = "ingest"
             /\ \A k \in KeysOut :
                  Len(ListAt(dctOut', k)) =
                    Len(ListAt(dctOut, k)) + ExpectedSamples(NextEntry, k)]_vars

\* The part of C3 the code keeps: every unconvertible payload but a token
\* count that is no multiple of the dimension is skipped.
C3_SkippedUnlessArity ==
    [][(/\ pc = "ingest"
        /\ HeaderOk(NextEntry)
        /\ HasUnconvertibleChannel(NextEntry)
        /\ \A i \in DOMAIN VecChannels :
              Len(NextEntry.vec[VecChannels[i].keyIn]) % VecChannels[i].intDim = 0)
          => /\ pc' = "ingest"
             /\ \A k \in KeysOut :
                  Len(ListAt(dctOut', k)) =
                    Len(ListAt(dctOut, k)) + ExpectedSamples(NextEntry, k)]_vars

----------------------------------------------------------------------------
(* C4: ingestion reads Doc1, Doc2, ... in increasing order and stops at the
   first index k whose entry is missing, lacks SampleTime or SampleDuration,
   or has SampleDuration <= 0: every block before k has contributed its
   samples, no block from k on contributes any, and the loop terminates. *)

C4_StopsAtFirstBadBlock ==
    (pc \in {"collected", "raised"})
        => /\ pc = "collected"
           /\ intIdx = FirstStop(dctIn.docs)
           /\ \A k \in KeysOut :
                Len(ListAt(dctOut, k)) =
                    ExpectedTotal(dctIn.docs, k, FirstStop(dctIn.docs) - 1)

\* The part of C4 the code keeps: a loop that ends without raising has
\* stopped at the first such index with every earlier block's samples.
C4_StopsAtFirstBadBlockUnlessRaised ==
    (pc = "collected")
        => /\ intIdx = FirstStop(dctIn.docs)
           /\ \A k \in KeysOut :
                Len(ListAt(dctOut, k)) =
                    ExpectedTotal(dctIn.docs, k, FirstStop(dctIn.docs) - 1)

----------------------------------------------------------------------------
(* What the claims expect of the pipeline, stated on the program's state *)

MainIsInvalid(main) ==
    \E f \in {"VideoFrameRate", "Duration"} :
        \/ main[f].kind = "none"
        \/ main[f].kind = "str"
        \/ (main[f].kind = "num" /\ main[f].val = 0)

\* the resampling loop has replaced the series of key k by its array
IsResampled(k) ==
    \E i \in 1..(loc.keyIdx - 1) : i <= Len(loc.lstStrKeys) /\ loc.lstStrKeys[i] = k

\* --calGrav T0-T1 with two numbers of the same value
EqualBounds(cg) ==
    /\ cg.strSep
    /\ cg.strT0.kind = "num"
    /\ cg.strT1.kind = "num"
    /\ cg.strT0.val = cg.strT1.val

\* the frames of the timeline the calibration window selects
WindowFrames == SliceFrames(loc.slcCalGrav, Len(loc.arrTNew))

NoCalibration ==
    /\ loc.rotCalGrav = Identity
    /\ IsResampled("Gravity") => WindowFrames = {}
    /\ IsResampled("CameraAngle") =>
          \A i \in DOMAIN dctOut.val["CameraAngle"] :
              dctOut.val["CameraAngle"][i].rot = Identity

FewDistinctTimestamps(series) ==
    Cardinality({series[i].t : i \in DOMAIN series}) < 2

\* the key the resampling loop is about to process
NextKey == loc.lstStrKeys[loc.keyIdx]

\* the GPS stage has produced its arrays
GPSDone == DictHas(dctOut, "TurnRate")

----------------------------------------------------------------------------
(* C5: when the gravity-calibration window is given with equal bounds
   (T0 = T1, any value), the derived index window selects no gravity sample,
   the calibration rotation stays the identity, and CameraAngle is not
   rotated by calibration. *)

C5_EqualBoundsDisableCalibration ==
    EqualBounds(args.calGrav) => NoCalibration

\* The part of C5 the code keeps: equal bounds at or past the end of the
\* recording select no frame.
C5_EqualBoundsPastTheEnd ==
    (/\ EqualBounds(args.calGrav)
     /\ dctIn.Main.Duration.kind = "num"
     /\ args.calGrav.strT0.val * TicksPerSecond >= dctIn.Main.Duration.val)
        => NoCalibration

----------------------------------------------------------------------------
(* C6: when the flag disabling true-course yaw matching is set, the yaw
   component of CameraAngle is never regressed against TrueCourse nor shifted
   by a fitted line, whatever the roll/pitch-zeroing flag and whether or not
   unmasked TrueCourse samples exist. *)

C6_NoTCmatchNeverRegresses ==
    (args.noTCmatch /\ IsResampled("CameraAngle"))
        => \A i \in DOMAIN dctOut.val["CameraAngle"] :
              dctOut.val["CameraAngle"][i].yaw \notin {"regressed", "nan"}

\* The part of C6 the code keeps: with both flags set yaw stays as measured.
C6_BothFlagsLeaveYaw ==
    (args.noTCmatch /\ args.noRPYZero /\ IsResampled("CameraAngle"))
        => \A i \in DOMAIN dctOut.val["CameraAngle"] :
              dctOut.val["CameraAngle"][i].yaw = "euler"

----------------------------------------------------------------------------
(* C7: for every frame i the imprecise mask is true exactly when
   GPSHorizontalError[i] > hdop or GPSSpeed2D[i] < minspeed, and at every
   masked frame both TrueCourse[i] and TurnRate[i] are output as missing and
   take no part in the computation of the values at unmasked frames. *)

MaskIsAsSpecified ==
    \A i \in DOMAIN loc.arrMaskNotPrecise :
        loc.arrMaskNotPrecise[i] =
            (\/ dctOut.val["GPSHorizontalError"][i].n >
                    args.hdop * dctOut.val["GPSHorizontalError"][i].d
             \/ dctOut.val["GPSSpeed2D"][i].n <
                    args.minspeed * dctOut.val["GPSSpeed2D"][i].d)

C7_MaskedFramesAreMissingAndUnused ==
    GPSDone =>
        /\ MaskIsAsSpecified
        /\ \A i \in DOMAIN loc.arrMaskNotPrecise :
              loc.arrMaskNotPrecise[i] =>
                  /\ dctOut.val["TrueCourse"][i].missing
                  /\ dctOut.val["TurnRate"][i].missing
                  /\ \A j \in DOMAIN loc.arrMaskNotPrecise :
                        ~loc.arrMaskNotPrecise[j] =>
                            /\ i \notin dctOut.val["TrueCourse"][j].uses
                            /\ i \notin dctOut.val["TurnRate"][j].uses

\* The part of C7 the code keeps: the mask is as stated and TrueCourse is
\* missing exactly at the masked frames.
C7_MaskAndTrueCourseMissing ==
    GPSDone =>
        /\ MaskIsAsSpecified
        /\ \A i \in DOMAIN loc.arrMaskNotPrecise :
              dctOut.val["TrueCourse"][i].missing = loc.arrMaskNotPrecise[i]

----------------------------------------------------------------------------
(* C8: for every input with a valid Main section, any other defect (a channel
   absent from all blocks, a channel with too few samples) does not end the
   run with a failure: the run continues to the output write. *)

C8_ValidMainNeverFails ==
    (pc # "start" /\ ~MainIsInvalid(dctIn.Main))
        => (pc # "raised" /\ exitStatus # 1)

\* The part of C8 the code keeps: a run that reaches the write ends with
\* status 0 whether or not the write succeeds.
C8_WriteNeverFails ==
    (pc = "done") => (exitStatus = 0 /\ fileOut \in {"written", "failed"})

----------------------------------------------------------------------------
(* C9: if a collected channel has fewer than two distinct timestamps,
   resampling omits that channel from the output and the pipeline continues
   with the remaining channels instead of raising. *)

C9_FewTimestampsChannelIsOmitted ==
    [][(/\ pc = "resample"
        /\ loc.keyIdx <= Len(loc.lstStrKeys)
        /\ FewDistinctTimestamps(dctOut.val[NextKey]))
          => (pc' = "resample" /\ ~DictHas(dctOut', NextKey))]_vars

\* What the code does instead: the spline constructor raises and ends the
\* run.
C9_FewTimestampsRaise ==
    [][(/\ pc = "resample"
        /\ loc.keyIdx <= Len(loc.lstStrKeys)
        /\ FewDistinctTimestamps(dctOut.val[NextKey]))
          => (pc' = "raised" /\ exitStatus' = 1)]_vars

----------------------------------------------------------------------------
(* C10: if the Main section lacks VideoFrameRate or Duration, or either is
   non-numeric, or either equals zero, the run aborts with a failure exit
   status before any block is ingested and without writing any telemetry. *)

C10_InvalidMainAborts ==
    (pc \notin {"idle", "start"} /\ MainIsInvalid(dctIn.Main))
        => /\ pc = "exit"
           /\ exitStatus = 1
           /\ intIdx = 0
           /\ dctOut = EmptyDict
           /\ fileOut = "empty"

C10_Witness ==
    /\ pc = "exit"
    /\ exitStatus = 1
    /\ dctIn.Main.Duration = Num(0)
    /\ HeaderOk(dctIn.docs[1])


----------------------------------------------------------------------------
(* Definitions the offset claims share *)

\* the step of the offset corrector that does not raise
OffsetsStep == pc = "resample" /\ loc.keyIdx > Len(loc.lstStrKeys) /\ pc' = "gps"

\* the triples the run holds for a channel, in the order given
TriplesOf(strKey) == ListAt(ProcessOffsetArgs(args.offset, loc.fltFramerate), strKey)

\* the frames (0-based) the window of a triple selects
WindowOf(t) == SliceFrames(t.slcIdx, Len(loc.arrTNew))

\* channels with numbers in every row that the arguments of SpecOffset name
OffsetKeys == {"Temperature", "GPSHorizontalError", "Gravity", "CameraAngle"}

DimOf(strKey) == IF strKey \in VecKeysOut THEN 3 ELSE 1

\* a target that is a number, or a vector of the channel's dimension
WellShaped(strKey, t) ==
    \/ t.varValue.kind = "num"
    \/ (t.varValue.kind = "list" /\ strKey \in VecKeysOut
        /\ Len(t.varValue.items) = DimOf(strKey))

TargetAt(t, c) ==
    IF t.varValue.kind = "list" THEN t.varValue.items[c] ELSE t.varValue.items[1]

\* component c of the rows of arr a window selects
ColumnOver(strKey, arr, frames, c) ==
    LET lo == CHOOSE i \in frames : \A j \in frames : i <= j
    IN  [j \in 1..Cardinality(frames) |-> RowItems(strKey, arr[lo + j])[c]]

\* the least and the greatest value the method of a triple can give on xs:
\* the median and the mean are computed, a power mean lies between the
\* smallest and the greatest element
CentralLeast(xs, funMethod) ==
    IF funMethod = "mean" THEN Mean(xs)
    ELSE IF funMethod = "meanPower" THEN KthSmallest(xs, 1)
    ELSE Median(xs)

CentralGreatest(xs, funMethod) ==
    IF funMethod = "mean" THEN Mean(xs)
    ELSE IF funMethod = "meanPower" THEN KthSmallest(xs, Len(xs))
    ELSE Median(xs)

\* sum over the first k triples with a non-empty window of
\* len * (target - central value), the central value taken as small
\* (least = TRUE) or as great as the method allows
RECURSIVE WeightedSum(_, _, _, _, _, _)
WeightedSum(strKey, arr, triples, k, c, least) ==
    IF k = 0 THEN Q(0)
    ELSE LET t == triples[k]
             xs == ColumnOver(strKey, arr, WindowOf(t), c)
             m == IF least THEN CentralLeast(xs, t.funMethod)
                  ELSE CentralGreatest(xs, t.funMethod)
             rest == WeightedSum(strKey, arr, triples, k - 1, c, least)
         IN  IF WindowOf(t) = {} THEN rest
             ELSE QAdd(rest, QMul(Q(Cardinality(WindowOf(t))), QSub(TargetAt(t, c), m)))

RECURSIVE WeightSum(_, _)
WeightSum(triples, k) ==
    IF k = 0 THEN 0 ELSE WeightSum(triples, k - 1) + Cardinality(WindowOf(triples[k]))

\* sum(len * (target - central)) / sum(len)
WeightedOffset(strKey, arr, triples, c, least) ==
    QDiv(WeightedSum(strKey, arr, triples, Len(triples), c, least),
         Q(WeightSum(triples, Len(triples))))

\* what the step added to component c of row i of a channel
Added(strKey, i, c) ==
    QSub(RowItems(strKey, dctOut'.val[strKey][i])[c],
         RowItems(strKey, dctOut.val[strKey][i])[c])

\* the triples whose method the call funMethod(arrVal, axis=0) can compute
Computable(triples) == SelectSeq(triples, LAMBDA t : t.funMethod # "meanPower")

----------------------------------------------------------------------------
(* C11: for a channel with one or more offset specifications the offset
   added is sum(len_i * (target_i - method_i(channel[window_i]))) / sum(len_i)
   over the specifications whose window selects at least one sample, and the
   same offset is added to every sample of the channel. *)

C11_OffsetIsWeightedAverage ==
    [][OffsetsStep =>
        \A strKey \in OffsetKeys :
            LET triples == TriplesOf(strKey)
            IN  (/\ DictHas(dctOut, strKey)
                 /\ \A k \in DOMAIN triples : WellShaped(strKey, triples[k])
                 /\ WeightSum(triples, Len(triples)) > 0)
                => \A i \in DOMAIN dctOut.val[strKey] : \A c \in 1..DimOf(strKey) :
                       /\ ~QLess(Added(strKey, i, c),
                                 WeightedOffset(strKey, dctOut.val[strKey], triples, c, FALSE))
                       /\ ~QLess(WeightedOffset(strKey, dctOut.val[strKey], triples, c, TRUE),
                                 Added(strKey, i, c))]_vars

\* The part of C11 the code keeps: the formula over the specifications
\* whose method is the median or the mean.
C11_WeightedAverageOfMedianAndMean ==
    [][OffsetsStep =>
        \A strKey \in OffsetKeys :
            LET triples == Computable(TriplesOf(strKey))
            IN  (/\ DictHas(dctOut, strKey)
                 /\ \A k \in DOMAIN triples : WellShaped(strKey, triples[k])
                 /\ WeightSum(triples, Len(triples)) > 0)
                => \A i \in DOMAIN dctOut.val[strKey] : \A c \in 1..DimOf(strKey) :
                       Added(strKey, i, c) =
                           WeightedOffset(strKey, dctOut.val[strKey], triples, c, TRUE)]_vars

----------------------------------------------------------------------------
(* C12: if every offset specification of a channel selects zero samples the
   channel's output array is left exactly as resampled, for scalar channels
   and for vector channels with vector-valued targets alike; a specification
   whose window selects zero samples contributes nothing to the offset of
   the others. *)

\* every window of the channel's specifications is empty
ZeroWeight(strKey) ==
    /\ DictHas(dctOut, strKey)
    /\ TriplesOf(strKey) # <<>>
    /\ WeightSum(TriplesOf(strKey), Len(TriplesOf(strKey))) = 0

C12_ZeroWeightLeavesChannel ==
    [][OffsetsStep =>
        \A strKey \in OffsetKeys :
            ZeroWeight(strKey) => dctOut'.val[strKey] = dctOut.val[strKey]]_vars

\* The part of C12 the code keeps: the channel is left alone when the first
\* target is no list; after a list every number of the channel is NaN.
C12_ZeroWeightLeavesUnlessListTarget ==
    [][OffsetsStep =>
        \A strKey \in OffsetKeys :
            ZeroWeight(strKey) =>
                IF TriplesOf(strKey)[1].varValue.kind # "list"
                THEN dctOut'.val[strKey] = dctOut.val[strKey]
                ELSE \A i \in DOMAIN dctOut'.val[strKey] :
                        \A c \in 1..DimOf(strKey) :
                            IsNaN(RowItems(strKey, dctOut'.val[strKey][i])[c])]_vars

----------------------------------------------------------------------------
(* C13: an offset specification with time bounds t0-t1 selects exactly the
   frames whose timestamp on the uniform timeline lies in the half-open
   interval [t0, t1); a missing t0 means from the first frame and a missing
   t1 means through the last frame. *)

\* the --offset strings of the run that processOffsetArgs accepts
ParsedOffsets == {args.offset[k] : k \in {j \in DOMAIN args.offset : OffsetParses(args.offset[j])}}

\* the frames (0-based) the code selects for an --offset string
SelectedFrames(o) ==
    SliceFrames(OffsetSlice(o.strT0, o.strT1, loc.fltFramerate), Len(loc.arrTNew))

C13_WindowIsHalfOpenInTime ==
    (pc = "gps") =>
        \A o \in ParsedOffsets :
            SelectedFrames(o) =
                {i \in 0..(Len(loc.arrTNew) - 1) :
                    /\ (IsNum(o.strT0) => o.strT0.val <= loc.arrTNew[i + 1])
                    /\ (IsNum(o.strT1) => loc.arrTNew[i + 1] < o.strT1.val)}

\* The part of C13 the code keeps: the window is one of frame numbers, frame
\* i taken to lie at i / fltFramerate seconds and t1 included (for t0 <= t1);
\* a missing t0 starts at the first frame, a missing t1 ends at the last.
C13_WindowIsOfFrameNumbers ==
    (pc = "gps") =>
        \A o \in ParsedOffsets :
            (IsNum(o.strT0) /\ IsNum(o.strT1) => o.strT0.val <= o.strT1.val)
            => SelectedFrames(o) =
                {i \in 0..(Len(loc.arrTNew) - 1) :
                    /\ (IsNum(o.strT0) =>
                            o.strT0.val * loc.fltFramerate < (i + 1) * TicksPerSecond)
                    /\ (IsNum(o.strT1) =>
                            i * TicksPerSecond <= o.strT1.val * loc.fltFramerate)}

----------------------------------------------------------------------------
(* C14: an invalid offset specification (a string that does not match
   K=V:T0-T1:M, an unknown channel name, a non-numeric value or window bound,
   an unknown method) is dropped and has no effect on any channel, while
   every other specification of the list, before or after it, is still
   parsed and applied; the run does not raise. *)

\* the offset stage about to run
OffsetsStage == pc = "resample" /\ loc.keyIdx > Len(loc.lstStrKeys)

\* an --offset string the claim calls invalid; a window bound that is no
\* number makes the string one that RE_OFFSET does not match
IsInvalidOffset(o) ==
    \/ ~o.match
    \/ ~DictHas(dctOut, o.strKey)
    \/ o.strValue.kind \notin {"num", "list"}
    \/ o.strMethod \notin MAP_STATISTICS_METHOD

\* the strings whose value json.loads accepts without its being a number or
\* a list of numbers
IsOtherJsonValue(o) == o.match /\ o.strValue.kind \in {"true", "nan", "str"}

\* what the offset stage makes of dctOut when given the list lstStrOffsets
OffsetsOutcome(lstStrOffsets) ==
    LET dctOffsets == ProcessOffsetArgs(lstStrOffsets, loc.fltFramerate)
    IN  OffsetsApplied(DictSet(dctOut, "Timestamp",
                               [i \in DOMAIN loc.arrTNew |-> Q(loc.arrTNew[i])]),
                       dctOffsets, Len(dctOffsets.keys))

C14_InvalidOffsetHasNoEffect ==
    [][OffsetsStage =>
        LET r == OffsetsOutcome(SelectSeq(args.offset, LAMBDA o : ~IsInvalidOffset(o)))
        IN  /\ dctOut' = r.out
            /\ (pc' = "raised") = r.raised]_vars

\* The part of C14 the code keeps: the strings that are dropped without
\* effect are the invalid ones whose value json.loads rejects or is a number
\* or a list.
C14_InvalidOffsetHasNoEffectUnlessJsonValue ==
    [][OffsetsStage =>
        LET r == OffsetsOutcome(SelectSeq(args.offset,
                     LAMBDA o : ~IsInvalidOffset(o) \/ IsOtherJsonValue(o)))
        IN  /\ dctOut' = r.out
            /\ (pc' = "raised") = r.raised]_vars

----------------------------------------------------------------------------
(* C15: in the output, for every frame, the yaw component of CameraAngle and
   every non-missing TrueCourse value lie in [0, 2 pi), the roll and pitch
   components of CameraAngle lie in [-pi, pi), and each wrapped value differs
   from the unwrapped one by an integer multiple of 2 pi. *)

\* the wrapping step that does not raise
WrapStep == pc = "wrap" /\ pc' = "write"

\* lo <= x < hi
InRange(x, lo, hi) == ~IsNaN(x) /\ ~QLess(x, Q(lo)) /\ QLess(x, Q(hi))

\* a - b is a whole number of turns
WholeTurns(a, b) ==
    LET diff == QSub(a, b)
    IN  ~IsNaN(diff) /\ diff.d = 1 /\ diff.n % (2 * Pi) = 0

\* x, the value after wrapping x0, is as the claim says
WrappedInto(x, x0, lo, hi) == InRange(x, lo, hi) /\ WholeTurns(x, x0)

C15_AnglesAreWrapped ==
    [][WrapStep =>
        /\ \A i \in DOMAIN dctOut'.val["CameraAngle"] :
              LET x  == dctOut'.val["CameraAngle"][i].angles
                  x0 == dctOut.val["CameraAngle"][i].angles
              IN  /\ WrappedInto(x[1], x0[1], 0 - Pi, Pi)
                  /\ WrappedInto(x[2], x0[2], 0 - Pi, Pi)
                  /\ WrappedInto(x[3], x0[3], 0, 2 * Pi)
        /\ \A i \in DOMAIN dctOut'.val["TrueCourse"] :
              ~dctOut'.val["TrueCourse"][i].missing
              => WrappedInto(dctOut'.val["TrueCourse"][i].val,
                             dctOut.val["TrueCourse"][i].val, 0, 2 * Pi)]_vars

\* The part of C15 the code keeps: an angle that is a number is wrapped as
\* the claim says; an angle that is NaN stays NaN.
C15_NumbersAreWrapped ==
    [][WrapStep =>
        /\ \A i \in DOMAIN dctOut'.val["CameraAngle"] : \A c \in 1..3 :
              LET x  == dctOut'.val["CameraAngle"][i].angles[c]
                  x0 == dctOut.val["CameraAngle"][i].angles[c]
              IN  IF IsNaN(x0) THEN IsNaN(x)
                  ELSE IF c = 3 THEN WrappedInto(x, x0, 0, 2 * Pi)
                  ELSE WrappedInto(x, x0, 0 - Pi, Pi)
        /\ \A i \in DOMAIN dctOut'.val["TrueCourse"] :
              /\ dctOut'.val["TrueCourse"][i].missing = dctOut.val["TrueCourse"][i].missing
              /\ WrappedInto(dctOut'.val["TrueCourse"][i].val,
                             dctOut.val["TrueCourse"][i].val, 0, 2 * Pi)]_vars

----------------------------------------------------------------------------
(* C16: unless roll/pitch zeroing is disabled, the roll and pitch components
   of the output CameraAngle are zero at the first frame and each of the two
   series is the resampled series shifted by one constant (modulo the final
   wrap); when zeroing is disabled, roll and pitch are changed by nothing
   but the final wrap. *)

\* the step of lines 657-685 that does not raise
YawStep == pc = "yaw" /\ pc' = "wrap" /\ DictHas(dctOut, "CameraAngle")

\* roll (c = 1) or pitch (c = 2) of frame i before and after the step
AngleBefore(i, c) == dctOut.val["CameraAngle"][i].angles[c]

AngleAfter(i, c) == dctOut'.val["CameraAngle"][i].angles[c]

C16_RollPitchZeroedAtFirstFrame ==
    [][YawStep =>
        \A c \in 1..2 : \A i \in DOMAIN dctOut.val["CameraAngle"] :
            IF args.noRPYZero
            THEN AngleAfter(i, c) = AngleBefore(i, c)
            ELSE /\ AngleAfter(1, c) = Q(0)
                 /\ QSub(AngleAfter(i, c), AngleBefore(i, c))
                        = QSub(AngleAfter(1, c), AngleBefore(1, c))]_vars

\* The part of C16 the code keeps: the claim for the series that hold
\* numbers; a series of NaN stays one.
C16_NumbersAreZeroedAtFirstFrame ==
    [][YawStep =>
        \A c \in 1..2 : \A i \in DOMAIN dctOut.val["CameraAngle"] :
            IF IsNaN(AngleBefore(i, c))
            THEN IsNaN(AngleAfter(i, c))
            ELSE IF args.noRPYZero
            THEN AngleAfter(i, c) = AngleBefore(i, c)
            ELSE /\ AngleAfter(1, c) = Q(0)
                 /\ QSub(AngleAfter(i, c), AngleBefore(i, c))
                        = QSub(AngleAfter(1, c), AngleBefore(1, c))]_vars

----------------------------------------------------------------------------
(* C17: every array in the output document (every resampled channel, every
   derived key Vario, TurnRate, DistanceStep, GPSPitch, GPSAcceleration2D/3D,
   TrueCourse, and the Timestamp key) has exactly as many entries as the
   uniform timeline, one per frame; no channel is left in its raw
   (timestamp, value) form. *)

\* the keys lines 520-653 add to the collected channels
DerivedKeys ==
    {"Vario", "GPSAcceleration2D", "GPSAcceleration3D", "Timestamp",
     "TrueCourse", "TurnRate", "DistanceStep", "GPSPitch"}

----------------------------------------------------------------------------
(* C18: for every axis-mapping string that is a case-insensitive permutation
   of the mapper's alphabet, Orientation.mangle is a bijection on vector
   positions: every output position is filled from exactly one input
   position, and applying mangle and then the inverse permutation with the
   same signs returns the original vector exactly, for every vector of the
   alphabet's length. *)

\* mangle has been called on a vector of the alphabet's length by an instance
\* made from a permutation of the alphabet
MangledByPermutation ==
    /\ vecIn # <<>>
    /\ Len(vecIn) = Len(oriArgs.strAxes)
    /\ IsPermutationOfAxes(oriArgs.strIn, oriArgs.strAxes)

\* the sign the instance applies at output position j
SignAt(j) == IF ori.signNone THEN 1 ELSE ori.dctSign[j - 1]

\* the inverse of the instance's permutation, with the same signs, applied
\* to the vector vec
Unmangled(vec) ==
    [k \in DOMAIN vec |->
        LET j == CHOOSE j \in DOMAIN vec : ori.dctMap[j - 1] + 1 = k
        IN  SignAt(j) * vec[j]]

C18_MangleIsInvertible ==
    MangledByPermutation =>
        /\ oriPc = "mangled"
        /\ Len(vecOut) = Len(vecIn)
        /\ \A j \in DOMAIN vecOut :
              Cardinality({k \in DOMAIN vecIn : Abs(vecIn[k]) = Abs(vecOut[j])}) = 1
        /\ \A k \in DOMAIN vecIn :
              Cardinality({j \in DOMAIN vecOut : Abs(vecIn[k]) = Abs(vecOut[j])}) = 1
        /\ Unmangled(vecOut) = vecIn

\* a permutation of "xyzr" that moves every position and inverts two axes
C18_Witness ==
    /\ oriPc = "mangled"
    /\ oriArgs.strIn = <<"y", "r", "Z", "x">>
    /\ oriArgs.strAxes = AxesXYZR
    /\ oriArgs.boolParseSign
    /\ vecIn = <<1, 2, 3, 4>>
    /\ vecOut # vecIn

----------------------------------------------------------------------------
(* C19: the pipeline stages run in the order Resampler, Orientation
   Calibrator, GPS Kinematics Derivator, Offset Corrector, final wrap: offset
   corrections are applied only after the GPS kinematics have been derived,
   so the imprecise mask and TrueCourse/TurnRate/GPSPitch are computed from
   uncorrected channels, and an offset specification naming a derived
   channel (TrueCourse, TurnRate, DistanceStep, GPSPitch) finds that channel
   and corrects it. *)

\* the channels lines 639-653 derive
GPSKeys == {"TrueCourse", "TurnRate", "DistanceStep", "GPSPitch"}

\* the claim as stated: when the offset corrector runs, the derived channels
\* exist
C19_OffsetsFollowGPS ==
    OffsetsStage => GPSKeys \subseteq DOMAIN dctOut.val

\* C19 as the code has it: the order is Resampler and Calibrator, Offset
\* Corrector, GPS Kinematics Derivator, yaw matching, wrap. When the offset
\* corrector runs and when it has run, no derived GPS channel exists, so an
\* offset naming one is skipped; the mask is computed from the corrected
\* channels.
C19_OffsetsPrecedeGPS ==
    /\ (OffsetsStage \/ pc = "gps") => GPSKeys \cap DOMAIN dctOut.val = {}
    /\ (pc = "gps") => DictHas(dctOut, "Timestamp")
    /\ GPSDone =>
          /\ pc \in {"yaw", "wrap", "write", "done", "raised"}
          /\ GPSKeys \subseteq DOMAIN dctOut.val
          /\ MaskIsAsSpecified

\* every block has a precise fix, the offset raises the horizontal error
\* above the threshold at every frame, and another names TrueCourse
C19_Witness ==
    /\ GPSDone
    /\ args.offset = << Plain("TrueCourse", 1, NoValue, NoValue),
                        Plain("GPSHorizontalError", 20, NoValue, NoValue) >>
    /\ \A i \in DOMAIN loc.arrMaskNotPrecise :
          /\ loc.arrMaskNotPrecise[i]
          /\ dctOut.val["TrueCourse"][i].val = Q(0)

----------------------------------------------------------------------------
(* C20: GPSPitch is a defined (non-missing) value at every frame, including
   the frames that the HDOP/speed mask flags as imprecise; only TrueCourse
   and TurnRate are subject to the mask. *)

----------------------------------------------------------------------------
(* C21: after ingesting any sequence of blocks, the timestamps in each
   channel's collected series are non-decreasing in collection order. *)

\* the timestamps of a collected series are numbers in non-decreasing order
NonDecreasing(series) ==
    /\ \A i \in DOMAIN series : IsNum(series[i].t)
    /\ \A i, j \in DOMAIN series : i < j => series[i].t.val <= series[j].t.val

C21_TimestampsNonDecreasing ==
    pc \in {"ingest", "collected"} =>
        \A k \in DOMAIN dctOut.val : NonDecreasing(dctOut.val[k])

\* The loop appends in document order and never sorts: the order of a series
\* is that of the documents' SampleTime values.
C21_TimestampsFollowDocuments ==
    [][(pc = "ingest" /\ pc' = "ingest") =>
          \A k \in DOMAIN dctOut'.val :
             \A i \in DOMAIN dctOut'.val[k] :
                \/ (DictHas(dctOut, k) /\ i <= Len(dctOut.val[k])
                      /\ dctOut'.val[k][i] = dctOut.val[k][i])
                \/ (/\ i > Len(ListAt(dctOut, k))
                    /\ IsNum(NextEntry.SampleTime)
                    /\ dctOut'.val[k][i].t.val >= NextEntry.SampleTime.val)]_vars

----------------------------------------------------------------------------
(* C22: whatever the order in which channels first appear in the input
   blocks, the calibration rotation is derived from the resampled Gravity
   channel before CameraAngle is converted and resampled, so that when
   Gravity is present the rotation applied to CameraAngle is always the
   calibrated one and is applied to every CameraAngle sample; ImageAngle and
   all other channels are never rotated by it. *)

GravityPresent ==
    \E i \in DOMAIN loc.lstStrKeys : loc.lstStrKeys[i] = "Gravity"

\* every row of the resampled key k carries the rotation rot
RotatedBy(k, rot) ==
    \A i \in DOMAIN dctOut.val[k] : dctOut.val[k][i].rot = rot

C22_CameraAngleAlwaysCalibrated ==
    /\ (IsResampled("CameraAngle") /\ GravityPresent) =>
          /\ IsResampled("Gravity")
          /\ \A i \in DOMAIN dctOut.val["CameraAngle"] :
                dctOut.val["CameraAngle"][i].rot.kind = "calibrated"
    /\ IsResampled("ImageAngle") => RotatedBy("ImageAngle", Identity)

\* As the code has it: Gravity is resampled first wherever its key entered
\* dctOut; the rotation of every CameraAngle row is the one computed from
\* the gravity rows of the calibration window when that window selects a
\* frame of the timeline, and the identity when it selects none or when
\* there is no Gravity channel; ImageAngle is never rotated.
C22_CalibratedWhereWindowSelects ==
    /\ GravityPresent => loc.lstStrKeys[1] = "Gravity"
    /\ (IsResampled("CameraAngle") /\ GravityPresent) =>
          /\ IsResampled("Gravity")
          /\ RotatedBy("CameraAngle",
                       IF WindowFrames # {} THEN Calibrated(WindowFrames)
                       ELSE Identity)
    /\ (IsResampled("CameraAngle") /\ ~GravityPresent) =>
          RotatedBy("CameraAngle", Identity)
    /\ IsResampled("ImageAngle") => RotatedBy("ImageAngle", Identity)

\* CameraAngle entered dctOut before Gravity did, and every one of its rows
\* is rotated by the calibration; ImageAngle is resampled as well
C22_Witness ==
    /\ IsResampled("CameraAngle")
    /\ IsResampled("ImageAngle")
    /\ \E i, j \in DOMAIN dctOut.keys :
          i < j /\ dctOut.keys[i] = "CameraAngle" /\ dctOut.keys[j] = "Gravity"
    /\ WindowFrames # {}
    /\ RotatedBy("CameraAngle", Calibrated(WindowFrames))

----------------------------------------------------------------------------
(* C23: when yaw handling is active and no frame has an unmasked TrueCourse
   value, no regression is applied and yaw is shifted by a single constant
   so that its value at the first frame is 0. *)

\* line 657 is entered and line 660 finds no unmasked TrueCourse value
NoCourseStep ==
    /\ YawStep
    /\ ~(args.noTCmatch /\ args.noRPYZero)
    /\ \A i \in DOMAIN dctOut.val["TrueCourse"] : dctOut.val["TrueCourse"][i].missing

C23_YawZeroedWithoutTrueCourse ==
    [][NoCourseStep =>
        /\ AngleAfter(1, 3) = Q(0)
        /\ \A i \in DOMAIN dctOut.val["CameraAngle"] :
              /\ dctOut'.val["CameraAngle"][i].yaw = "zeroed"
              /\ QSub(AngleAfter(i, 3), AngleBefore(i, 3))
                    = QSub(Q(0), AngleBefore(1, 3))]_vars

\* The part of C23 the code keeps: the claim for a yaw series of numbers; a
\* series of NaN stays one.
C23_NumbersAreZeroedWithoutTrueCourse ==
    [][NoCourseStep =>
        \A i \in DOMAIN dctOut.val["CameraAngle"] :
            /\ dctOut'.val["CameraAngle"][i].yaw = "zeroed"
            /\ IF IsNaN(AngleBefore(i, 3))
               THEN IsNaN(AngleAfter(i, 3))
               ELSE /\ AngleAfter(1, 3) = Q(0)
                    /\ QSub(AngleAfter(i, 3), AngleBefore(i, 3))
                          = QSub(Q(0), AngleBefore(1, 3))]_vars

\* yaw has been zeroed: no frame has a TrueCourse value, and the yaw of the
\* first frame is 0 while the measured one was not
C23_Witness ==
    /\ pc = "wrap"
    /\ DictHas(dctOut, "CameraAngle")
    /\ \A i \in DOMAIN dctOut.val["TrueCourse"] : dctOut.val["TrueCourse"][i].missing
    /\ dctOut.val["CameraAngle"][1].yaw = "zeroed"
    /\ dctOut.val["CameraAngle"][1].angles[3] = Q(0)
    /\ Len(dctOut.val["CameraAngle"]) > 1
    /\ dctOut.val["CameraAngle"][2].angles[3] # Q(0)

----------------------------------------------------------------------------
(* C24: the Uniform Timeline has exactly round(overall_duration * framerate)
   entries, its first entry is 0, its last entry is overall_duration, and
   consecutive entries differ by one constant step. *)

\* n is overall_duration * framerate rounded to a nearest integer, the
\* duration being in ticks
IsRounded(n, D, f) ==
    2 * Abs(TicksPerSecond * n - D * f) <= TicksPerSecond

\* consecutive entries of arr differ by one constant
EvenlySpaced(arr) ==
    \A i \in 1..(Len(arr) - 1) : arr[i + 1] - arr[i] = arr[2] - arr[1]

C24_TimelineSpansDuration ==
    pc = "resample" =>
        /\ IsRounded(Len(loc.arrTNew), loc.fltDurationOverall, loc.fltFramerate)
        /\ Len(loc.arrTNew) >= 1
        /\ loc.arrTNew[1] = 0
        /\ loc.arrTNew[Len(loc.arrTNew)] = loc.fltDurationOverall
        /\ EvenlySpaced(loc.arrTNew)

\* As the code has it: two entries or more span the duration in even steps;
\* a timeline of one entry holds 0 alone and does not reach the duration; a
\* recording shorter than half a frame has no entry at all.
C24_TimelineSpansDurationFromTwoEntries ==
    pc = "resample" =>
        LET n == Len(loc.arrTNew)
        IN  /\ IsRounded(n, loc.fltDurationOverall, loc.fltFramerate)
            /\ n >= 1 => loc.arrTNew[1] = 0
            /\ n >= 2 => /\ loc.arrTNew[n] = loc.fltDurationOverall
                         /\ EvenlySpaced(loc.arrTNew)
                         /\ loc.arrTNew[2] > loc.arrTNew[1]

\* a timeline of four entries or more that ends at the duration
C24_Witness ==
    /\ pc = "resample"
    /\ Len(loc.arrTNew) >= 4
    /\ loc.arrTNew[Len(loc.arrTNew)] = loc.fltDurationOverall
    /\ loc.arrTNew[2] - loc.arrTNew[1] # TicksPerSecond \div loc.fltFramerate

----------------------------------------------------------------------------
(* C25: for a vector channel of dimension dim whose payload in a block has
   token_count tokens (a positive multiple of dim), the block contributes
   exactly token_count/dim samples, in payload order, and the i-th sample
   (counting from 0) gets the timestamp
   block_start + i * (block_duration * dim / token_count). *)

\* the payload of channel ch in block e: numbers, a positive multiple of dim
WholeVectors(e, ch) ==
    /\ Len(e.vec[ch.keyIn]) > 0
    /\ Len(e.vec[ch.keyIn]) % ch.intDim = 0
    /\ \A i \in DOMAIN e.vec[ch.keyIn] : e.vec[ch.keyIn][i].kind = "num"

\* this step has appended the samples of block e to the series of ch: one
\* per group of dim tokens, in payload order, evenly spaced from the start
SamplesAppended(e, ch) ==
    LET old == ListAt(dctOut, ch.keyOut)
        new == ListAt(dctOut', ch.keyOut)
        tok == e.vec[ch.keyIn]
        k   == Len(tok) \div ch.intDim
    IN  /\ Len(new) = Len(old) + k
        /\ \A j \in DOMAIN old : new[j] = old[j]
        /\ \A i \in 0..(k - 1) :
              LET s == new[Len(old) + i + 1]
              IN  /\ s.t.kind = "num"
                  /\ Len(tok) * (s.t.val - e.SampleTime.val)
                        = i * e.SampleDuration.val * ch.intDim
                  /\ {Abs(s.y[c]) : c \in DOMAIN s.y}
                        = {tok[i * ch.intDim + c].val : c \in 1..ch.intDim}

C25_BlockContributesEvenlySpacedSamples ==
    [][(pc = "ingest" /\ HeaderOk(NextEntry)) =>
          \A c \in DOMAIN VecChannels :
              WholeVectors(NextEntry, VecChannels[c])
                  => SamplesAppended(NextEntry, VecChannels[c])]_vars

\* The part of C25 the code keeps: the claim for every block whose ingestion
\* does not raise.
C25_SamplesUnlessRaised ==
    [][(pc = "ingest" /\ HeaderOk(NextEntry) /\ pc' = "ingest") =>
          \A c \in DOMAIN VecChannels :
              WholeVectors(NextEntry, VecChannels[c])
                  => SamplesAppended(NextEntry, VecChannels[c])]_vars

----------------------------------------------------------------------------
(* C26: for a valid mapping string s, mangle(v) places, for every position j
   of s, the component v[j] at the canonical index of the letter s[j],
   multiplied by -1 when s[j] is lower-case and by +1 when it is upper-case
   if sign parsing is enabled, and unmultiplied if sign parsing is disabled;
   the result has the same length as the alphabet. *)

\* the position (from 1) of the letter c in the alphabet of the instance
CanonicalIndex(c) ==
    CHOOSE k \in DOMAIN oriArgs.strAxes : Lower(oriArgs.strAxes[k]) = Lower(c)

\* the factor the claim gives the letter c
FactorOf(c) == IF oriArgs.boolParseSign /\ IsLower(c) THEN 0 - 1 ELSE 1

\* mangle has been called by an instance made from a permutation of the
\* alphabet, on a vector that has a component for every position of s
MangledWholeVector ==
    /\ vecIn # <<>>
    /\ IsPermutationOfAxes(oriArgs.strIn, oriArgs.strAxes)
    /\ Len(vecIn) >= Len(oriArgs.strIn)

----------------------------------------------------------------------------
(* C27: for a block with positive duration and a payload whose token count
   is a positive multiple of the channel dimension, every synthesized
   timestamp t satisfies block_start <= t < block_start + block_duration;
   hence if blocks are ingested in increasing SampleTime order and each block
   ends no later than the next one starts, every vector channel's timestamps
   are strictly increasing. *)

\* the samples this step has appended to the series of ch lie in block e
WithinBlock(e, ch) ==
    LET old == ListAt(dctOut, ch.keyOut)
        new == ListAt(dctOut', ch.keyOut)
    IN  \A i \in DOMAIN new :
            i > Len(old) =>
                /\ new[i].t.kind = "num"
                /\ e.SampleTime.val <= new[i].t.val
                /\ new[i].t.val < e.SampleTime.val + e.SampleDuration.val

\* the blocks read so far have numeric headers, and each ends no later than
\* the next one starts
BlocksInOrder ==
    /\ \A i \in 1..intIdx : i \in DOMAIN dctIn.docs => HeaderOk(dctIn.docs[i])
    /\ \A i \in 1..(intIdx - 1) :
          (i + 1) \in DOMAIN dctIn.docs =>
              dctIn.docs[i].SampleTime.val + dctIn.docs[i].SampleDuration.val
                  <= dctIn.docs[i + 1].SampleTime.val

StrictlyIncreasing(series) ==
    \A i \in 1..(Len(series) - 1) : series[i].t.val < series[i + 1].t.val

C27_TimestampsWithinBlockAndIncreasing ==
    /\ [][(pc = "ingest" /\ HeaderOk(NextEntry)) =>
             \A c \in DOMAIN VecChannels :
                 WholeVectors(NextEntry, VecChannels[c])
                     => WithinBlock(NextEntry, VecChannels[c])]_vars
    /\ [](BlocksInOrder =>
             \A k \in VecKeysOut :
                 DictHas(dctOut, k) => StrictlyIncreasing(dctOut.val[k]))

\* two blocks in order, the first with three samples of a channel, the second
\* with one: four timestamps, the last one the start of the second block
C27_Witness ==
    /\ pc = "collected"
    /\ intIdx > Len(dctIn.docs)
    /\ BlocksInOrder
    /\ DictHas(dctOut, "Gravity")
    /\ Len(dctOut.val["Gravity"]) = 4
    /\ dctOut.val["Gravity"][3].t.val > dctOut.val["Gravity"][2].t.val
    /\ dctOut.val["Gravity"][4].t = dctIn.docs[2].SampleTime

----------------------------------------------------------------------------
(* C28 *)

\* the gaps have been filled: lstChange is the final segment list
SegmentsFinal == spPc \in {"filter", "atempo", "done"}

\* consecutive segments neither overlap nor leave a gap, the first starts at
\* 0 and the last ends at or after the end of the video
PartitionsVideo(lst, fltDuration) ==
    /\ lst # <<>>
    /\ lst[1].fltStart = Q(0)
    /\ \A i \in DOMAIN lst : QLess(lst[i].fltStart, lst[i].fltEnd)
    /\ \A i \in 1..(Len(lst) - 1) : lst[i].fltEnd = lst[i + 1].fltStart
    /\ QLeq(fltDuration, lst[Len(lst)].fltEnd)

\* C28: without --force, the final segment list partitions the video
\* timeframe: sorted, pairwise non-overlapping, every instant from 0 to the
\* end of the video in exactly one segment.
C28_SegmentsPartitionVideo ==
    (SegmentsFinal /\ ~spArgs.force)
        => PartitionsVideo(lstChange, spArgs.fltDuration)

----------------------------------------------------------------------------
(* C29 *)

\* a --change argument that passes the validation of lines 100-108
PassesValidation(lstParams) == ~ParseChange(lstParams).raised

\* a validated argument with the speed factor 0
HasZeroSpeed ==
    \E i \in DOMAIN spArgs.change :
        /\ PassesValidation(spArgs.change[i])
        /\ ParseChange(spArgs.change[i]).change.fltSpeed = Q(0)

\* C29: the generator terminates for every --change argument that passes
\* the validation, a speed factor of 0 included: the atempo decomposition
\* reaches a finite list of factors and the filter expression is printed.
C29_GeneratorTerminates == <>(spPc = "done")

\* the part that holds: it terminates unless a validated speed factor is 0
C29_TerminatesUnlessZeroSpeed == (~HasZeroSpeed) => <>(spPc = "done")

----------------------------------------------------------------------------
(* C30 *)

\* the indexes of the command lines (image, print, mask) of the file
CommandLineIndexes ==
    {i \in 0..(Len(fOvrl) - 1) :
        /\ fOvrl[i + 1].kind = "token"
        /\ ~fOvrl[i + 1].strTab
        /\ fOvrl[i + 1].strIdentifier \in {"image", "print", "mask"}}

\* step k is the command of the k-th command line
OneStepPerCommandLine ==
    /\ Len(lstSteps) = Cardinality(CommandLineIndexes)
    /\ \A k \in DOMAIN lstSteps :
          /\ lstSteps[k].id \in CommandLineIndexes
          /\ Cardinality({i \in CommandLineIndexes : i < lstSteps[k].id}) = k - 1
          /\ lstSteps[k].strCmd = fOvrl[lstSteps[k].id + 1].strIdentifier

\* C30: a file loaded without warnings yields exactly one step per command
\* line, in file order; a 'uses' line adds no step and does not add an
\* earlier command again.
C30_OneStepPerCommandLine == (ovPc = "done") => OneStepPerCommandLine

\* the part that holds: the steps are the command lines in file order, each
\* at least once, and a command is repeated only across a 'uses' line
C30_StepsAreCommandLinesInOrder ==
    (ovPc = "done") =>
        /\ {lstSteps[k].id : k \in DOMAIN lstSteps} = CommandLineIndexes
        /\ \A k \in 1..(Len(lstSteps) - 1) : lstSteps[k].id <= lstSteps[k + 1].id
        /\ \A k \in 1..(Len(lstSteps) - 1) :
              lstSteps[k].id = lstSteps[k + 1].id =>
                  \E i \in (lstSteps[k].id + 1)..(Len(fOvrl) - 1) :
                      fOvrl[i + 1].strIdentifier = "uses"


============================================================================
